---- MODULE Spec2Model ----
(***************************************************************************)
(* A model of the retrieval-augmented answering pipeline of                *)
(* ai-docs-copilot: the chunker (ingestion_service/chunking.py), the       *)
(* context assembler and rank fusion (api_service/services/rag.py) and the *)
(* single-shot and streaming orchestrators built on them.                  *)
(*                                                                         *)
(* Text is a sequence of one-character strings, so that splitting,         *)
(* joining and stripping are computed character by character.              *)
(***************************************************************************)
EXTENDS Integers, Sequences, FiniteSets, TLC

VARIABLES
    chunker,      \* the frame of a chunk_text call
    assembler,    \* the frame of a build_context_from_hits call
    fuser,        \* the frame of a reciprocal_rank_fusion call
    reranker,     \* the frame of a RerankerClient.rerank call
    rag,          \* the frame of an answer_with_rag / stream_answer_with_rag call
    calls,        \* the collaborator calls issued so far, in order
    outstanding,  \* the collaborator calls issued and not yet returned
    events,       \* the lines of the stream handed to the consumer so far
    response,     \* what the single-shot caller got back
    peer,         \* a second request on the same event loop, while it is parked
    ensurer       \* the vector store's collections and the ensure_collection calls

vars == <<chunker, assembler, fuser, reranker, rag, calls, outstanding, events,
          response, peer, ensurer>>

functions == <<chunker, assembler, fuser, reranker>>
library == <<fuser, reranker>>
pipeline == <<rag, calls, outstanding, events, response, peer>>

(***************************************************************************)
(* Bounds of the model.                                                    *)
(***************************************************************************)
MaxTextLen == 4
MaxChars == 3
MaxCtxHits == 4
MaxBudget == 12
MaxHits == 2
MaxTokens == 2
MaxRank == 3
MaxDocs == 3
MaxCallers == 2

(***************************************************************************)
(* Strings.                                                                *)
(***************************************************************************)
SP == " "
NL == "\n"
DOT == "."

\* The characters str.strip() removes that occur in the model's alphabet.
IsWhitespace(c) == c \in {SP, NL}

\* s[from:] of Python, 1-based.
DropFirst(s, n) == SubSeq(s, n + 1, Len(s))

RECURSIVE LStrip(_)
LStrip(s) ==
    IF s # <<>> /\ IsWhitespace(Head(s)) THEN LStrip(Tail(s)) ELSE s

RECURSIVE RStrip(_)
RStrip(s) ==
    IF s # <<>> /\ IsWhitespace(s[Len(s)])
    THEN RStrip(SubSeq(s, 1, Len(s) - 1))
    ELSE s

\* str.strip()
Strip(s) == RStrip(LStrip(s))

\* sub occurs in s at position p (1-based).
OccursAt(s, sub, p) ==
    /\ p >= 1
    /\ p + Len(sub) - 1 <= Len(s)
    /\ SubSeq(s, p, p + Len(sub) - 1) = sub

\* `sub in s` of Python.
Contains(s, sub) == \E p \in 1..(Len(s) + 1) : OccursAt(s, sub, p)

\* str.find(): the first position at which sub occurs in s, 0 when none.
Find(s, sub) ==
    IF Contains(s, sub)
    THEN CHOOSE p \in 1..(Len(s) + 1) :
            /\ OccursAt(s, sub, p)
            /\ \A q \in 1..(p - 1) : ~OccursAt(s, sub, q)
    ELSE 0

\* str.split(sep) for a non-empty sep: left to right, non-overlapping.
RECURSIVE Split(_, _)
Split(s, sep) ==
    LET p == Find(s, sep) IN
    IF p = 0
    THEN <<s>>
    ELSE <<SubSeq(s, 1, p - 1)>> \o Split(DropFirst(s, p + Len(sep) - 1), sep)

\* "".join(parts)
RECURSIVE Join(_)
Join(parts) ==
    IF parts = <<>> THEN <<>> ELSE Head(parts) \o Join(Tail(parts))

\* sep.join(parts)
RECURSIVE JoinWith(_, _)
JoinWith(sep, parts) ==
    IF parts = <<>> THEN <<>>
    ELSE IF Len(parts) = 1 THEN Head(parts)
    ELSE Head(parts) \o sep \o JoinWith(sep, Tail(parts))

\* All texts of at most n characters over the alphabet.
TextsUpTo(alphabet, n) == UNION {[1..k -> alphabet] : k \in 0..n}

(***************************************************************************)
(* Chunker: ingestion_service/chunking.py                                  *)
(***************************************************************************)
SEPARATORS == << <<NL, NL>>, <<NL>>, <<DOT, SP>>, <<SP>>, <<>> >>

\* The alphabet the chunked texts are drawn from: a letter and every
\* character a separator is made of.
ChunkChars == {"a", SP, NL, DOT}

\* A mutant of PartWithSep: the separator is not re-attached.
PartWithSepLost(parts, i, sep) == parts[i]

\* chunking.py 42-45: the separator is re-attached to all but the last part.
PartWithSep(parts, i, sep) ==
    IF i < Len(parts) THEN parts[i] \o sep ELSE parts[i]

\* A mutant of TooBig: no piece is ever split further.
TooBigNever(part_with_sep, max_chars) == FALSE

\* chunking.py 47: the piece is still too big.
TooBig(part_with_sep, max_chars) == Len(part_with_sep) > max_chars

RECURSIVE SplitAtomic(_, _, _)
RECURSIVE SplitParts(_, _, _, _, _)

\* chunking.py 40-51: the loop over parts, from part i on.
SplitParts(parts, i, sep, next_seps, max_chars) ==
    IF i > Len(parts) THEN <<>>
    ELSE LET part_with_sep == PartWithSep(parts, i, sep)
             here == IF TooBig(part_with_sep, max_chars)
                     THEN SplitAtomic(part_with_sep, next_seps, max_chars)
                     ELSE <<part_with_sep>>
         IN here \o SplitParts(parts, i + 1, sep, next_seps, max_chars)

\* chunking.py 21-53: _split_atomic (max_chars is its closure variable).
SplitAtomic(text_segment, separators, max_chars) ==
    IF separators = <<>> THEN <<text_segment>>
    ELSE LET sep == Head(separators)
             next_seps == Tail(separators)
         IN IF sep = <<>>
            THEN [k \in 1..Len(text_segment) |-> <<text_segment[k]>>]
            ELSE IF ~Contains(text_segment, sep)
            THEN SplitAtomic(text_segment, next_seps, max_chars)
            ELSE SplitParts(Split(text_segment, sep), 1, sep, next_seps, max_chars)

\* chunking.py 67: adding this piece exceeds the limit and the buffer is
\* not empty.
NeedsFlush(current_len, piece_len, max_chars, current_buffer) ==
    current_len + piece_len > max_chars /\ current_buffer # <<>>

\* A mutant of OverlapBuffer: the whole buffer is carried over.
OverlapBufferWhole(current_buffer, overlap) == current_buffer

\* A mutant of EmitChunk: the emptiness test is dropped.
EmitChunkAlways(chunks, full_chunk) == Append(chunks, full_chunk)

\* chunking.py 70-71 and 96-97: only a non-empty stripped buffer is emitted.
EmitChunk(chunks, full_chunk) ==
    IF full_chunk # <<>> THEN Append(chunks, full_chunk) ELSE chunks

\* chunking.py 75-84: walk the buffer backwards from piece j, keeping
\* pieces while the kept length is below overlap.
RECURSIVE OverlapWalk(_, _, _, _)
OverlapWalk(current_buffer, j, overlap, overlap_buffer) ==
    IF j >= 1 /\ Len(Join(overlap_buffer)) < overlap
    THEN OverlapWalk(current_buffer, j - 1, overlap,
                     <<current_buffer[j]>> \o overlap_buffer)
    ELSE overlap_buffer

OverlapBuffer(current_buffer, overlap) ==
    OverlapWalk(current_buffer, Len(current_buffer), overlap, <<>>)

(***************************************************************************)
(* Context assembler: api_service/services/rag.py                          *)
(***************************************************************************)
\* The value of an absent optional field.
None == <<"None">>

\* dict.get(key, default)
Get(payload, key, default) ==
    IF key \in DOMAIN payload THEN payload[key] ELSE default

\* A mutant of RAGSource: the source names the file in place of the text.
RAGSourceFileAsText(score, payload) ==
    [score |-> score,
     text |-> Get(payload, "source_file", <<>>),
     source_file |-> Get(payload, "source_file", None),
     chunk_index |-> Get(payload, "chunk_index", None),
     source_id |-> Get(payload, "source_id", None)]

\* rag.py 43-49
RAGSource(score, payload) ==
    [score |-> score,
     text |-> Get(payload, "text", <<>>),
     source_file |-> Get(payload, "source_file", None),
     chunk_index |-> Get(payload, "chunk_index", None),
     source_id |-> Get(payload, "source_id", None)]

\* A mutant of OverBudget: the bound is off by one.
OverBudgetOffByOne(current_len, addition, max_chars) ==
    current_len + Len(addition) >= max_chars

\* rag.py 36: the addition does not fit.
OverBudget(current_len, addition, max_chars) ==
    current_len + Len(addition) > max_chars

\* rag.py 30-50: the walk over the hits, from hit i on.
RECURSIVE ContextWalk(_, _, _, _, _, _)
ContextWalk(hits, i, max_chars, current_len, context_parts, sources) ==
    IF i > Len(hits)
    THEN [context_parts |-> context_parts, sources |-> sources]
    ELSE LET score == hits[i].score
             payload == hits[i].payload
             text == Get(payload, "text", <<>>)
             addition == text \o <<NL, NL>>
         IN IF text = <<>>
            THEN ContextWalk(hits, i + 1, max_chars, current_len,
                             context_parts, sources)
            ELSE IF OverBudget(current_len, addition, max_chars)
            THEN [context_parts |-> context_parts, sources |-> sources]
            ELSE ContextWalk(hits, i + 1, max_chars,
                             current_len + Len(addition),
                             Append(context_parts, addition),
                             Append(sources, RAGSource(score, payload)))

\* rag.py 19-53: build_context_from_hits
BuildContextFromHits(hits, max_chars) ==
    LET walk == ContextWalk(hits, 1, max_chars, 0, <<>>, <<>>)
    IN [context |-> Strip(JoinWith(<<NL>>, walk.context_parts)),
        sources |-> walk.sources,
        context_parts |-> walk.context_parts]

\* The payloads the assembler's hits are drawn from: text missing, empty,
\* plain, with whitespace at an edge, only whitespace.
CtxPayloads ==
    {[source_file |-> <<"f">>],
     [text |-> <<>>, source_file |-> <<"f">>],
     [text |-> <<"a">>, source_file |-> <<"f">>],
     [text |-> <<"a", SP>>, source_file |-> <<"f">>],
     [text |-> <<SP, "a">>, source_file |-> <<"f">>],
     [text |-> <<SP>>, source_file |-> <<"f">>]}

\* A ranked list: the hit at rank i carries a score that falls with i.
Ranked(payloads) ==
    [i \in 1..Len(payloads) |->
        [score |-> Len(payloads) + 1 - i, payload |-> payloads[i]]]

CtxHitLists ==
    {Ranked(ps) : ps \in UNION {[1..n -> CtxPayloads] : n \in 0..MaxCtxHits}}

AssemblerIdle ==
    [pc |-> "idle", hits |-> <<>>, max_chars |-> 0, context |-> <<>>,
     sources |-> <<>>, context_parts |-> <<>>]

AssemblerInputs ==
    {[AssemblerIdle EXCEPT !.pc = "start", !.hits = h, !.max_chars = m] :
        h \in CtxHitLists, m \in 0..MaxBudget}

(***************************************************************************)
(* Rank fusion: api_service/services/rag.py                                *)
(***************************************************************************)
SEARCH_K == 20
RERANK_N == 5
RRF_K == 60
DEFAULT_MAX_CHARS == 2000

Min(a, b) == IF a <= b THEN a ELSE b

RECURSIVE GCD(_, _)
GCD(a, b) == IF b = 0 THEN a ELSE GCD(b, a % b)

\* Exact fractions num/den in lowest terms: the relevance scores of the
\* re-rank backend, and the real-number value of a sum of 1/(k + rank).
Frac(num, den) ==
    LET g == GCD(num, den) IN [num |-> num \div g, den |-> den \div g]

LCM(a, b) == (a \div GCD(a, b)) * b

\* Both over the least common denominator, which keeps the numbers small.
FracAdd(x, y) ==
    LET den == LCM(x.den, y.den)
    IN Frac(x.num * (den \div x.den) + y.num * (den \div y.den), den)

FracLess(x, y) ==
    LET den == LCM(x.den, y.den)
    IN x.num * (den \div x.den) < y.num * (den \div y.den)

\* Python floats are IEEE-754 doubles: 53 significant bits, round to nearest,
\* ties to even.  Every double in [2^-8, 8) is a multiple of 2^-60, so a
\* fused score is held as the integer N of score = N * 2^-60, in three
\* limbs of 21 bits: N = h * 2^42 + m * 2^21 + l.
Limb == 2^21

RECURSIVE BitLen(_)
BitLen(n) == IF n = 0 THEN 0 ELSE 1 + BitLen(n \div 2)

\* Carries the overflow of each limb into the next.
FloatNormalize(h, m, l) ==
    LET m1 == m + (l \div Limb)
    IN [h |-> h + (m1 \div Limb), m |-> m1 % Limb, l |-> l % Limb]

\* defaultdict(float): 0.0
FloatZero == [h |-> 0, m |-> 0, l |-> 0]

\* A mutant of FloatRecip: every rank contributes 1.0.
FloatRecipFlat(n) == [h |-> 2^18, m |-> 0, l |-> 0]

\* rag.py 70: 1.0 / n for 1 <= n <= 256.  With 2^(b-1) < n <= 2^b the
\* quotient 2^(b+52) / n has 53 bits; it is rounded on the remainder and
\* scaled to a multiple of 2^-60.
FloatRecip(n) ==
    LET b == BitLen(n - 1)
        h0 == 2^(b + 10)
        qh == h0 \div n
        r1 == h0 % n
        qm == (r1 * Limb) \div n
        r2 == (r1 * Limb) % n
        ql == (r2 * Limb) \div n
        r3 == (r2 * Limb) % n
        up == 2 * r3 > n \/ (2 * r3 = n /\ ql % 2 = 1)
        q == FloatNormalize(qh, qm, ql + IF up THEN 1 ELSE 0)
        s == 2^(8 - b)
    IN FloatNormalize(q.h * s, q.m * s, q.l * s)

\* A mutant of FloatAdd: the contribution replaces the score.
FloatAddReplaces(x, y) == y

\* rag.py 70: x + y, the exact sum rounded to 53 significant bits.
FloatAdd(x, y) ==
    LET sum == FloatNormalize(x.h + y.h, x.m + y.m, x.l + y.l)
        len == BitLen(sum.h)
    IN IF len <= 11 THEN sum
       ELSE LET unit == 2^(len - 11)
                low == sum.l % unit
                odd == (sum.l \div unit) % 2 = 1
                up == 2 * low > unit \/ (2 * low = unit /\ odd)
            IN FloatNormalize(sum.h, sum.m,
                              sum.l - low + IF up THEN unit ELSE 0)

\* rag.py 76: the comparison of two scores by the sort.
FloatLess(x, y) ==
    \/ x.h < y.h
    \/ x.h = y.h /\ x.m < y.m
    \/ x.h = y.h /\ x.m = y.m /\ x.l < y.l

\* rag.py 68
DocKey(payload) ==
    Get(payload, "source_file", <<>>) \o Get(payload, "text", <<>>)

\* rag.py 67-70: the entries of one ranked list, from rank on.  acc holds
\* the keys in first-seen order, fused_scores and document_map.
RECURSIVE FuseList(_, _, _, _)
FuseList(ranked_list, rank, k, acc) ==
    IF rank > Len(ranked_list) THEN acc
    ELSE LET payload == ranked_list[rank].payload
             doc_key == DocKey(payload)
             seen == doc_key \in DOMAIN acc.fused_scores
             old == IF seen THEN acc.fused_scores[doc_key] ELSE FloatZero
         IN FuseList(ranked_list, rank + 1, k,
                [keys |-> IF seen THEN acc.keys ELSE Append(acc.keys, doc_key),
                 fused_scores |->
                    (doc_key :> FloatAdd(old, FloatRecip(k + rank))) @@ acc.fused_scores,
                 document_map |-> (doc_key :> payload) @@ acc.document_map])

\* rag.py 66: the loop over the ranked lists.
RECURSIVE FuseLists(_, _, _)
FuseLists(ranked_lists, k, acc) ==
    IF ranked_lists = <<>> THEN acc
    ELSE FuseLists(Tail(ranked_lists), k, FuseList(Head(ranked_lists), 1, k, acc))

\* A mutant of SortByScoreDesc: the list is left in insertion order.
SortByInsertion(results) == results

\* list.sort(key=score, reverse=True): stable, by score descending.
RECURSIVE SortByScoreDesc(_)
SortByScoreDesc(results) ==
    IF results = <<>> THEN <<>>
    ELSE LET sorted == SortByScoreDesc(SubSeq(results, 1, Len(results) - 1))
             x == results[Len(results)]
             before == SelectSeq(sorted, LAMBDA y : ~FloatLess(y.score, x.score))
             after == SelectSeq(sorted, LAMBDA y : FloatLess(y.score, x.score))
         IN before \o <<x>> \o after

\* rag.py 56-77: reciprocal_rank_fusion
ReciprocalRankFusion(ranked_lists, k) ==
    LET acc == FuseLists(ranked_lists, k,
                         [keys |-> <<>>, fused_scores |-> <<>>, document_map |-> <<>>])
        final_results ==
            [i \in 1..Len(acc.keys) |->
                [score |-> acc.fused_scores[acc.keys[i]],
                 payload |-> acc.document_map[acc.keys[i]]]]
    IN SortByScoreDesc(final_results)

\* The payloads the fused lists draw their hits from: three chunks of one
\* file, and a chunk without source_file whose text is the file name
\* followed by the text of the first.
FusePayloads ==
    {[text |-> <<"a">>, source_file |-> <<"f">>],
     [text |-> <<"b">>, source_file |-> <<"f">>],
     [text |-> <<"c">>, source_file |-> <<"f">>],
     [text |-> <<"f", "a">>]}

\* The points of the store: one per payload, and a second one for the
\* first two chunks (their file was ingested twice).
FusePoints ==
    {<<1, p>> : p \in FusePayloads}
    \cup {<<2, p>> : p \in {q \in FusePayloads :
                                "source_file" \in DOMAIN q /\ q.text \in {<<"a">>, <<"b">>}}}

\* A search returns at most MaxRank points, none of them twice.
RankedLists ==
    {Ranked([i \in DOMAIN ps |-> ps[i][2]]) :
        ps \in {qs \in UNION {[1..n -> FusePoints] : n \in 0..MaxRank} :
                  \A i, j \in DOMAIN qs : i # j => qs[i] # qs[j]}}

\* The values of k: the smallest two and the one the pipeline passes.
FuseKs == {1, 2, RRF_K}

FuserIdle == [pc |-> "idle", ranked_lists |-> <<>>, k |-> RRF_K, result |-> <<>>]

\* rag.py 106 and 164 pass two lists; one list is the degenerate call.
FuserInputs ==
    {[FuserIdle EXCEPT !.pc = "start", !.ranked_lists = ls, !.k = k] :
        ls \in UNION {[1..n -> RankedLists] : n \in {1, 2}}, k \in FuseKs}

\* rag.py 56-77: one call of reciprocal_rank_fusion.
FuseCall ==
    /\ fuser.pc = "start"
    /\ fuser' = [fuser EXCEPT
            !.pc = "done",
            !.result = ReciprocalRankFusion(fuser.ranked_lists, fuser.k)]
    /\ UNCHANGED <<chunker, assembler, reranker, pipeline, ensurer>>

(***************************************************************************)
(* Re-ranker: api_service/clients/reranker_client.py                       *)
(***************************************************************************)
\* `not x` for an optional string.
Falsy(x) == x = None \/ x = <<>>

\* A mutant of RerankPassThrough: nothing is cut.
RerankPassThroughAll(documents, top_n) == documents

\* reranker_client.py 38-40: documents[:top_n]
RerankPassThrough(documents, top_n) ==
    SubSeq(documents, 1, Min(top_n, Len(documents)))

\* reranker_client.py 43
RerankTexts(documents) ==
    [i \in 1..Len(documents) |-> Get(documents[i].payload, "text", <<>>)]

\* A mutant of RerankMap: the backend's index is taken as 1-based.
RerankMapOffByOne(documents, results) ==
    [j \in 1..Len(results) |->
        [score |-> results[j].relevance_score,
         payload |-> documents[IF results[j].index = 0 THEN Len(documents)
                               ELSE results[j].index].payload]]

\* reranker_client.py 54-67: map the backend's results (0-based index,
\* relevance score) back to the payloads.
RerankMap(documents, results) ==
    [j \in 1..Len(results) |->
        [score |-> results[j].relevance_score,
         payload |-> documents[results[j].index + 1].payload]]

\* What the backend may answer for n texts: a relevance-ordered choice of
\* at most top_n distinct indices, the j-th with relevance 1/(j+1).
DistinctIndexSeqs(n, top_n) ==
    {g \in UNION {[1..m -> 0..(n - 1)] : m \in 0..Min(top_n, n)} :
        \A a, b \in DOMAIN g : a # b => g[a] # g[b]}

BackendResults(n, top_n) ==
    {[j \in 1..Len(g) |-> [index |-> g[j], relevance_score |-> Frac(1, j + 1)]] :
        g \in DistinctIndexSeqs(n, top_n)}

\* The model the backend is asked for (reranker_client.py 19).
RERANK_MODEL == "rerank-english-v3.0"

\* The candidates handed to the re-ranker: at most MaxDocs hits with their
\* retrieval scores; a payload may lack its text.
RerankPayloads ==
    {[text |-> <<"a">>, source_file |-> <<"f">>],
     [text |-> <<"b">>, source_file |-> <<"f">>],
     [source_file |-> <<"g">>]}

RerankDocuments ==
    {Ranked(ps) : ps \in UNION {[1..n -> RerankPayloads] : n \in 0..MaxDocs}}

\* The frame of one rerank call.  backend_calls is the history of the calls
\* made to the backend, response what the backend answered.
RerankerIdle ==
    [pc |-> "idle", cohere_api_key |-> None, query |-> <<>>, documents |-> <<>>,
     top_n |-> RERANK_N, backend_calls |-> <<>>, response |-> <<>>,
     result |-> <<>>]

\* The key is absent, empty or set; top_n runs past the number of candidates.
RerankerInputs ==
    {[RerankerIdle EXCEPT !.pc = "start", !.cohere_api_key = c,
                          !.query = <<"q">>, !.documents = d, !.top_n = n] :
        c \in {None, <<>>, <<"k">>}, d \in RerankDocuments,
        n \in 0..(MaxDocs + 1)}

\* reranker_client.py 38-40: no key.
RerankFallback ==
    /\ reranker.pc = "start"
    /\ Falsy(reranker.cohere_api_key)
    /\ reranker' = [reranker EXCEPT
            !.pc = "done",
            !.result = RerankPassThrough(reranker.documents, reranker.top_n)]
    /\ UNCHANGED <<chunker, assembler, fuser, pipeline, ensurer>>

\* reranker_client.py 43-51: the texts are extracted and the backend called.
RerankBackendCall ==
    /\ reranker.pc = "start"
    /\ ~Falsy(reranker.cohere_api_key)
    /\ reranker' = [reranker EXCEPT
            !.pc = "await",
            !.backend_calls = Append(@,
                [query |-> reranker.query,
                 documents |-> RerankTexts(reranker.documents),
                 model |-> RERANK_MODEL,
                 top_n |-> reranker.top_n])]
    /\ UNCHANGED <<chunker, assembler, fuser, pipeline, ensurer>>

\* reranker_client.py 54-67: the backend answers and its results are mapped.
RerankBackendReturn ==
    /\ reranker.pc = "await"
    /\ \E results \in BackendResults(Len(reranker.documents), reranker.top_n) :
          reranker' = [reranker EXCEPT
              !.pc = "done",
              !.response = results,
              !.result = RerankMap(reranker.documents, results)]
    /\ UNCHANGED <<chunker, assembler, fuser, pipeline, ensurer>>

\* reranker_client.py 46-51: the backend call raises.
RerankBackendFail ==
    /\ reranker.pc = "await"
    /\ reranker' = [reranker EXCEPT !.pc = "failed"]
    /\ UNCHANGED <<chunker, assembler, fuser, pipeline, ensurer>>

\* The frame of one chunk_text call.  flushes is a history of the buffers
\* flushed so far: the pieces lo..hi each held, the first piece new_lo that
\* was not seeded from its predecessor, and whether a chunk was emitted.
ChunkerIdle ==
    [pc |-> "idle", text |-> <<>>, max_chars |-> 1, overlap |-> 0,
     pieces |-> <<>>, i |-> 1, chunks |-> <<>>, current_buffer |-> <<>>,
     current_len |-> 0, lo |-> 1, new_lo |-> 1, flushes |-> <<>>]

ChunkInputs ==
    {[ChunkerIdle EXCEPT !.pc = "start", !.text = t, !.max_chars = m,
                         !.overlap = o] :
        t \in TextsUpTo(ChunkChars, MaxTextLen), m \in 1..MaxChars,
        o \in 0..MaxChars}

Flush(c) ==
    [lo |-> c.lo, new_lo |-> c.new_lo, hi |-> c.i - 1,
     emitted |-> Strip(Join(c.current_buffer)) # <<>>]

\* chunking.py 17-18: empty input.
ChunkEmpty ==
    /\ chunker.pc = "start"
    /\ chunker.text = <<>>
    /\ chunker' = [chunker EXCEPT !.pc = "done"]
    /\ UNCHANGED <<assembler, library, pipeline, ensurer>>

\* chunking.py 56-61: split into atomic pieces, start the merge.
ChunkSplit ==
    /\ chunker.pc = "start"
    /\ chunker.text # <<>>
    /\ chunker' = [chunker EXCEPT
            !.pc = "merge",
            !.pieces = SplitAtomic(chunker.text, SEPARATORS, chunker.max_chars)]
    /\ UNCHANGED <<assembler, library, pipeline, ensurer>>

\* chunking.py 63-91: one round of the merge loop.
MergePiece ==
    /\ chunker.pc = "merge"
    /\ chunker.i <= Len(chunker.pieces)
    /\ LET piece == chunker.pieces[chunker.i]
           piece_len == Len(piece)
           flush == NeedsFlush(chunker.current_len, piece_len,
                               chunker.max_chars, chunker.current_buffer)
           full_chunk == Strip(Join(chunker.current_buffer))
           overlap_buffer == OverlapBuffer(chunker.current_buffer, chunker.overlap)
           overlap_len == Len(Join(overlap_buffer))
       IN chunker' = [chunker EXCEPT
            !.chunks = IF flush THEN EmitChunk(@, full_chunk) ELSE @,
            !.current_buffer =
                Append(IF flush THEN overlap_buffer ELSE @, piece),
            !.current_len =
                (IF flush THEN overlap_len ELSE @) + piece_len,
            !.lo = IF flush THEN chunker.i - Len(overlap_buffer) ELSE @,
            !.new_lo = IF flush THEN chunker.i ELSE @,
            !.flushes = IF flush THEN Append(@, Flush(chunker)) ELSE @,
            !.i = @ + 1]
    /\ UNCHANGED <<assembler, library, pipeline, ensurer>>

\* chunking.py 93-99: the final chunk.
ChunkFinish ==
    /\ chunker.pc = "merge"
    /\ chunker.i > Len(chunker.pieces)
    /\ chunker' = [chunker EXCEPT
            !.pc = "done",
            !.chunks = IF chunker.current_buffer # <<>>
                       THEN EmitChunk(@, Strip(Join(chunker.current_buffer)))
                       ELSE @,
            !.flushes = IF chunker.current_buffer # <<>>
                        THEN Append(@, Flush(chunker))
                        ELSE @]
    /\ UNCHANGED <<assembler, library, pipeline, ensurer>>

\* rag.py 19-53: one call of build_context_from_hits.
Assemble ==
    /\ assembler.pc = "start"
    /\ LET built == BuildContextFromHits(assembler.hits, assembler.max_chars)
       IN assembler' = [assembler EXCEPT
            !.pc = "done",
            !.context = built.context,
            !.sources = built.sources,
            !.context_parts = built.context_parts]
    /\ UNCHANGED <<chunker, library, pipeline, ensurer>>

(***************************************************************************)
(* Collection set-up: VectorStoreClient.ensure_collection                  *)
(* (api_service/clients/vector_store_client.py), called by every upload    *)
(* (api_service/main.py 190).                                              *)
(***************************************************************************)
\* main.py 44: the collection every client is made for.
COLLECTION_NAME == "docs"

\* The frame of one ensure_collection call.
CallerIdle == [pc |-> "idle", existing |-> {}]

\* The store's collections, the callers' frames and the history of the
\* create_collection calls issued: who issued it, and whether the
\* collection existed at that time.
EnsurerIdle == [collections |-> {}, callers |-> <<>>, creates |-> <<>>]

\* Between one and MaxCallers uploads call ensure_collection, each with a
\* client of its own, on a store that may hold the collection and may hold
\* another one.
EnsurerInputs ==
    {[EnsurerIdle EXCEPT
          !.collections = cs,
          !.callers = [c \in 1..n |-> [CallerIdle EXCEPT !.pc = "start"]]] :
        cs \in SUBSET {"other", COLLECTION_NAME}, n \in 1..MaxCallers}

EnsureStep(c, frame) == [ensurer EXCEPT !.callers[c] = frame]

\* vector_store_client.py 38: get_collections is awaited.
GetCollectionsCall(c) ==
    /\ ensurer.callers[c].pc = "start"
    /\ ensurer' = EnsureStep(c, [ensurer.callers[c] EXCEPT !.pc = "listing"])
    /\ UNCHANGED <<functions, pipeline>>

\* vector_store_client.py 38-39: the store answers with its collections as
\* they are now.
GetCollectionsReturn(c) ==
    /\ ensurer.callers[c].pc = "listing"
    /\ ensurer' = EnsureStep(c, [pc |-> "listed", existing |-> ensurer.collections])
    /\ UNCHANGED <<functions, pipeline>>

\* vector_store_client.py 40: the collection was listed.
EnsureSkip(c) ==
    /\ ensurer.callers[c].pc = "listed"
    /\ COLLECTION_NAME \in ensurer.callers[c].existing
    /\ ensurer' = EnsureStep(c, [ensurer.callers[c] EXCEPT !.pc = "done"])
    /\ UNCHANGED <<functions, pipeline>>

\* vector_store_client.py 40-48: the collection was not listed,
\* create_collection is issued.
CreateCollectionCall(c) ==
    /\ ensurer.callers[c].pc = "listed"
    /\ COLLECTION_NAME \notin ensurer.callers[c].existing
    /\ ensurer' = [EnsureStep(c, [ensurer.callers[c] EXCEPT !.pc = "creating"])
                      EXCEPT !.creates = Append(@,
                          [caller |-> c,
                           existed |-> COLLECTION_NAME \in ensurer.collections])]
    /\ UNCHANGED <<functions, pipeline>>

\* vector_store_client.py 42: the store creates the collection.
CreateCollectionReturn(c) ==
    /\ ensurer.callers[c].pc = "creating"
    /\ COLLECTION_NAME \notin ensurer.collections
    /\ ensurer' = [EnsureStep(c, [ensurer.callers[c] EXCEPT !.pc = "done"])
                      EXCEPT !.collections = @ \cup {COLLECTION_NAME}]
    /\ UNCHANGED <<functions, pipeline>>

\* vector_store_client.py 42: the store refuses to create a collection it
\* has; the exception leaves ensure_collection.
CreateCollectionFail(c) ==
    /\ ensurer.callers[c].pc = "creating"
    /\ COLLECTION_NAME \in ensurer.collections
    /\ ensurer' = EnsureStep(c, [ensurer.callers[c] EXCEPT !.pc = "failed"])
    /\ UNCHANGED <<functions, pipeline>>

(***************************************************************************)
(* Orchestrator: answer_with_rag and stream_answer_with_rag                *)
(* (api_service/services/rag.py), the generator client                     *)
(* (api_service/clients/llm_client.py) and the two endpoints               *)
(* (api_service/main.py).                                                  *)
(***************************************************************************)
\* rag.py 110 and 173
FALLBACK_SYSTEM_PROMPT ==
    <<"Y", "o", "u", " ", "a", "r", "e", " ", "a", " ", "h", "e", "l",
      "p", "f", "u", "l", " ", "a", "s", "s", "i", "s", "t", "a", "n",
      "t", ".", " ", "N", "o", " ", "d", "o", "c", "u", "m", "e", "n",
      "t", "s", " ", "f", "o", "u", "n", "d", ".">>

\* rag.py 119-124 and 190-195
RAG_SYSTEM_PROMPT ==
    <<"You", "are", "an", "AI", "assistant", "that", "answers", "questions",
      "using", "the", "provided", "context.", NL,
      "Use", "ONLY", "the", "context", "to", "answer.", "If", "the",
      "context", "does", "not", "contain", "the", "answer,", "say",
      "'I", "don't", "know", "based", "on", "the", "provided", "documents.'", NL,
      "Cite", "relevant", "points", "in", "your", "own", "words;", "do",
      "not", "invent", "sources.">>

\* rag.py 109-112 and 172-175
FallbackMessages(question) ==
    <<[role |-> "system", content |-> FALLBACK_SYSTEM_PROMPT],
      [role |-> "user", content |-> question]>>

\* rag.py 125-129 and 196-200
RagMessages(question, context) ==
    <<[role |-> "system", content |-> RAG_SYSTEM_PROMPT],
      [role |-> "user",
       content |-> <<"Question:", NL>> \o question \o <<NL, NL, "Context:", NL>>
                   \o context]>>

\* A mutant of FilterMetadata: the filter names another source.
FilterMetadataOther(source_id) ==
    IF Falsy(source_id) THEN None ELSE [source_id |-> <<"other">>]

\* rag.py 93 and 151
FilterMetadata(source_id) ==
    IF Falsy(source_id) THEN None ELSE [source_id |-> source_id]

\* A mutant of SourcesEvent: the line carries no source.
SourcesEventEmpty(sources) == [type |-> "sources", data |-> <<>>]

\* A mutant of ContentEvent: the line is tagged as a sources line.
ContentEventMistagged(token) == [type |-> "sources", data |-> token]

\* rag.py 177 and 203: one content line.
ContentEvent(token) == [type |-> "content", data |-> token]

\* rag.py 169 and 186-187: the sources line.
SourcesEvent(sources) == [type |-> "sources", data |-> sources]

\* A mutant of AskResponse: the result always claims retrieval.
AskResponseUsedRag(answer, sources, used_rag) ==
    [answer |-> answer, sources |-> sources, used_rag |-> TRUE]

\* rag.py 114 and 132
AskResponse(answer, sources, used_rag) ==
    [answer |-> answer, sources |-> sources, used_rag |-> used_rag]

\* The delta of the generator's stream that carries no content.
NoContent == <<>>

\* The payloads the two searches draw their hits from: two chunks with
\* text and one whose text is empty.
StorePayloads ==
    {[text |-> <<"a">>, source_file |-> <<"f">>, source_id |-> <<"s">>, chunk_index |-> 0],
     [text |-> <<"b">>, source_file |-> <<"f">>, source_id |-> <<"s">>, chunk_index |-> 1],
     [text |-> <<>>, source_file |-> <<"g">>, source_id |-> <<"s">>, chunk_index |-> 0]}

\* What a search may return: at most MaxHits hits, no payload twice in one
\* list (the same payload may be in both lists).
HitLists ==
    {Ranked(ps) :
        ps \in {qs \in UNION {[1..n -> StorePayloads] : n \in 0..MaxHits} :
                  \A a, b \in DOMAIN qs : a # b => qs[a] # qs[b]}}

\* What the store answers the requests that run side by side: to each its
\* own question and its own answers of the two searches.
PairScripts ==
    <<[question |-> <<"q">>, dense |-> <<>>, sparse |-> <<>>],
      [question |-> <<"q">>,
       dense |-> Ranked(<<[text |-> <<"a">>, source_file |-> <<"f">>,
                           source_id |-> <<"s">>, chunk_index |-> 0],
                          [text |-> <<"b">>, source_file |-> <<"f">>,
                           source_id |-> <<"s">>, chunk_index |-> 1]>>),
       sparse |-> Ranked(<<[text |-> <<"b">>, source_file |-> <<"f">>,
                            source_id |-> <<"s">>, chunk_index |-> 1]>>)],
      [question |-> <<"r">>,
       dense |-> Ranked(<<[text |-> <<>>, source_file |-> <<"g">>,
                           source_id |-> <<"s">>, chunk_index |-> 0]>>),
       sparse |-> Ranked(<<[text |-> <<"a">>, source_file |-> <<"f">>,
                            source_id |-> <<"s">>, chunk_index |-> 0]>>)]>>

\* What the dense and the sparse search may return to a request: anything
\* (script 0), or what its script says.
DenseReplies(script) ==
    IF script = 0 THEN HitLists ELSE {PairScripts[script].dense}

SparseReplies(script) ==
    IF script = 0 THEN HitLists ELSE {PairScripts[script].sparse}

\* The frame of a request.  script names the answers the searches give it
\* (0: any).
RagIdle ==
    [pc |-> "idle", entry |-> "call", mode |-> "single", question |-> <<>>,
     source_id |-> None, cohere_api_key |-> None, top_k |-> RERANK_N,
     filter_metadata |-> None, dense_hits |-> <<>>, sparse_hits |-> <<>>,
     hits |-> <<>>, final_hits |-> <<>>, context |-> <<>>, sources |-> <<>>,
     messages |-> <<>>, deltas |-> 0, token |-> NoContent, tokens |-> <<>>,
     script |-> 0]

\* A request: called directly (as the service tests do) or through the
\* HTTP endpoint, single-shot or streaming.
Request(e, m, q, s, c) ==
    [RagIdle EXCEPT !.pc = IF e = "http" THEN "request" ELSE "start",
                    !.entry = e, !.mode = m, !.question = q,
                    !.source_id = s, !.cohere_api_key = c]

\* The requests: a question with no source id, an empty one or a real one,
\* with or without a re-rank key; and the empty question.
RagRequests ==
    {Request(e, m, <<"q">>, s, c) :
        e \in {"call", "http"}, m \in {"single", "stream"},
        s \in {None, <<>>, <<"s">>}, c \in {None, <<"k">>}}
    \cup {Request(e, m, <<>>, None, None) :
        e \in {"call", "http"}, m \in {"single", "stream"}}

\* A mutant of Issue: the call is made twice.
IssueTwice(fn, args) ==
    /\ calls' = calls \o <<[fn |-> fn, args |-> args], [fn |-> fn, args |-> args]>>
    /\ outstanding' = outstanding \cup {fn}

Issue(fn, args) ==
    /\ calls' = Append(calls, [fn |-> fn, args |-> args])
    /\ outstanding' = outstanding \cup {fn}

Return(fn) == outstanding' = outstanding \ {fn}

\* A mutant of Raise: the exception is swallowed and the frame goes on
\* to the fusion.
RaiseSwallowed(fn) ==
    /\ rag' = [rag EXCEPT !.pc = "retrieved"]
    /\ outstanding' = outstanding \ {fn}

\* A mutant of Raise: the exception is swallowed and the token loop goes
\* on.
RaiseResumed(fn) ==
    /\ rag' = [rag EXCEPT !.pc = IF rag.mode = "stream" THEN "streaming" ELSE "failed"]
    /\ outstanding' = outstanding \ {fn}

\* An exception leaves the frame: every later statement is skipped.
Raise(fn) ==
    /\ rag' = [rag EXCEPT !.pc = "failed"]
    /\ outstanding' = outstanding \ {fn}

\* main.py 66-85: /ask.  AskRequest (models/ask.py 15-16) declares only
\* `question`, so reading body.source_id (main.py 81) raises
\* AttributeError, which the handler turns into a 500.
AskEndpoint ==
    /\ rag.pc = "request"
    /\ rag.mode = "single"
    /\ rag' = [rag EXCEPT !.pc = "failed"]
    /\ response' = [status |-> 500, detail |-> "RAG error: AttributeError"]
    /\ UNCHANGED <<calls, outstanding, events, functions, peer, ensurer>>

\* main.py 87-109: /chat_stream.  The response is started and body.source_id
\* (main.py 105) is read when the generator is first advanced: the stream
\* ends there, with no line.
ChatStreamEndpoint ==
    /\ rag.pc = "request"
    /\ rag.mode = "stream"
    /\ rag' = [rag EXCEPT !.pc = "failed"]
    /\ UNCHANGED <<calls, outstanding, events, response, functions, peer, ensurer>>

\* rag.py 92 and 150: embed the question.
EmbedCall ==
    /\ rag.pc = "start"
    /\ rag' = [rag EXCEPT !.pc = "embed"]
    /\ Issue("embed_texts", [texts |-> <<rag.question>>])
    /\ UNCHANGED <<events, response, functions, peer, ensurer>>

\* rag.py 92-93 and 150-151
EmbedReturn ==
    /\ rag.pc = "embed"
    /\ rag' = [rag EXCEPT !.pc = "embedded",
                          !.filter_metadata = FilterMetadata(rag.source_id)]
    /\ Return("embed_texts")
    /\ UNCHANGED <<calls, events, response, functions, peer, ensurer>>

EmbedFail ==
    /\ rag.pc = "embed"
    /\ Raise("embed_texts")
    /\ UNCHANGED <<calls, events, response, functions, peer, ensurer>>

\* rag.py 95-99 and 153-157: the dense search is awaited.
DenseCall ==
    /\ rag.pc = "embedded"
    /\ rag' = [rag EXCEPT !.pc = "dense"]
    /\ Issue("search", [top_k |-> SEARCH_K, filter_metadata |-> rag.filter_metadata])
    /\ UNCHANGED <<events, response, functions, peer, ensurer>>

DenseReturn ==
    /\ rag.pc = "dense"
    /\ \E h \in DenseReplies(rag.script) :
          rag' = [rag EXCEPT !.pc = "dense_done", !.dense_hits = h]
    /\ Return("search")
    /\ UNCHANGED <<calls, events, response, functions, peer, ensurer>>

DenseFail ==
    /\ rag.pc = "dense"
    /\ Raise("search")
    /\ UNCHANGED <<calls, events, response, functions, peer, ensurer>>

\* rag.py 100-104 and 158-162: the sparse search is awaited after the
\* dense search has returned.
SparseCall ==
    /\ rag.pc = "dense_done"
    /\ rag' = [rag EXCEPT !.pc = "sparse"]
    /\ Issue("sparse_search",
             [top_k |-> SEARCH_K, filter_metadata |-> rag.filter_metadata])
    /\ UNCHANGED <<events, response, functions, peer, ensurer>>

SparseReturn ==
    /\ rag.pc = "sparse"
    /\ \E h \in SparseReplies(rag.script) :
          rag' = [rag EXCEPT !.pc = "retrieved", !.sparse_hits = h]
    /\ Return("sparse_search")
    /\ UNCHANGED <<calls, events, response, functions, peer, ensurer>>

SparseFail ==
    /\ rag.pc = "sparse"
    /\ Raise("sparse_search")
    /\ UNCHANGED <<calls, events, response, functions, peer, ensurer>>

\* rag.py 106 and 164
Fuse ==
    /\ rag.pc = "retrieved"
    /\ rag' = [rag EXCEPT
            !.pc = "fused",
            !.hits = ReciprocalRankFusion(<<rag.dense_hits, rag.sparse_hits>>, RRF_K)]
    /\ UNCHANGED <<calls, outstanding, events, response, functions, peer, ensurer>>

\* rag.py 108-113: no hits, single-shot.
FallbackChatCall ==
    /\ rag.pc = "fused"
    /\ rag.mode = "single"
    /\ rag.hits = <<>>
    /\ rag' = [rag EXCEPT !.pc = "chat_fallback",
                          !.messages = FallbackMessages(rag.question)]
    /\ Issue("chat", [messages |-> FallbackMessages(rag.question), max_tokens |-> 512])
    /\ UNCHANGED <<events, response, functions, peer, ensurer>>

\* rag.py 113-114
FallbackChatReturn ==
    /\ rag.pc = "chat_fallback"
    /\ rag' = [rag EXCEPT !.pc = "done"]
    /\ response' = AskResponse(<<"answer">>, <<>>, FALSE)
    /\ Return("chat")
    /\ UNCHANGED <<calls, events, functions, peer, ensurer>>

\* rag.py 167-175: no hits, streaming: the empty sources line is yielded.
FallbackYieldSources ==
    /\ rag.pc = "fused"
    /\ rag.mode = "stream"
    /\ rag.hits = <<>>
    /\ rag' = [rag EXCEPT !.pc = "yielded",
                          !.messages = FallbackMessages(rag.question)]
    /\ events' = Append(events, SourcesEvent(<<>>))
    /\ UNCHANGED <<calls, outstanding, response, functions, peer, ensurer>>

\* rag.py 116 and 181: the orchestrator's call of reranker.rerank.
RerankInvocation ==
    [fn |-> "rerank",
     args |-> [query |-> rag.question, documents |-> rag.hits, top_n |-> rag.top_k]]

\* rag.py 116 and 181, reranker_client.py 38-40: no key, the first top_n
\* come back unchanged; the call returns without awaiting anything.
RerankNoKey ==
    /\ rag.pc = "fused"
    /\ rag.hits # <<>>
    /\ Falsy(rag.cohere_api_key)
    /\ rag' = [rag EXCEPT !.pc = "reranked",
                          !.final_hits = RerankPassThrough(rag.hits, rag.top_k)]
    /\ calls' = Append(calls, RerankInvocation)
    /\ UNCHANGED <<outstanding, events, response, functions, peer, ensurer>>

\* rag.py 116 and 181, reranker_client.py 43-51: the backend is called.
RerankCall ==
    /\ rag.pc = "fused"
    /\ rag.hits # <<>>
    /\ ~Falsy(rag.cohere_api_key)
    /\ rag' = [rag EXCEPT !.pc = "rerank"]
    /\ calls' = calls \o
          <<RerankInvocation,
            [fn |-> "backend_rerank",
             args |-> [query |-> rag.question, documents |-> RerankTexts(rag.hits),
                       model |-> RERANK_MODEL, top_n |-> rag.top_k]]>>
    /\ outstanding' = outstanding \cup {"rerank"}
    /\ UNCHANGED <<events, response, functions, peer, ensurer>>

\* reranker_client.py 54-67
RerankReturn ==
    /\ rag.pc = "rerank"
    /\ \E results \in BackendResults(Len(rag.hits), rag.top_k) :
          rag' = [rag EXCEPT !.pc = "reranked",
                             !.final_hits = RerankMap(rag.hits, results)]
    /\ Return("rerank")
    /\ UNCHANGED <<calls, events, response, functions, peer, ensurer>>

RerankFail ==
    /\ rag.pc = "rerank"
    /\ Raise("rerank")
    /\ UNCHANGED <<calls, events, response, functions, peer, ensurer>>

\* rag.py 117 and 182
BuildContext ==
    /\ rag.pc = "reranked"
    /\ LET built == BuildContextFromHits(rag.final_hits, DEFAULT_MAX_CHARS)
       IN rag' = [rag EXCEPT !.pc = "assembled",
                             !.context = built.context,
                             !.sources = built.sources]
    /\ UNCHANGED <<calls, outstanding, events, response, functions, peer, ensurer>>

\* rag.py 119-131: hits, single-shot.
ChatCall ==
    /\ rag.pc = "assembled"
    /\ rag.mode = "single"
    /\ rag' = [rag EXCEPT !.pc = "chat",
                          !.messages = RagMessages(rag.question, rag.context)]
    /\ Issue("chat", [messages |-> RagMessages(rag.question, rag.context),
                      max_tokens |-> 512])
    /\ UNCHANGED <<events, response, functions, peer, ensurer>>

\* rag.py 131-132
ChatReturn ==
    /\ rag.pc = "chat"
    /\ rag' = [rag EXCEPT !.pc = "done"]
    /\ response' = AskResponse(<<"answer">>, rag.sources, TRUE)
    /\ Return("chat")
    /\ UNCHANGED <<calls, events, functions, peer, ensurer>>

ChatFail ==
    /\ rag.pc \in {"chat", "chat_fallback"}
    /\ Raise("chat")
    /\ UNCHANGED <<calls, events, response, functions, peer, ensurer>>

\* rag.py 185-200: hits, streaming: the sources line is yielded when there
\* are sources.
YieldSources ==
    /\ rag.pc = "assembled"
    /\ rag.mode = "stream"
    /\ rag' = [rag EXCEPT !.pc = "yielded",
                          !.messages = RagMessages(rag.question, rag.context)]
    /\ events' = IF rag.sources # <<>>
                 THEN Append(events, SourcesEvent(rag.sources))
                 ELSE events
    /\ UNCHANGED <<calls, outstanding, response, functions, peer, ensurer>>

\* rag.py 176 and 202, llm_client.py 27-32: the streaming call starts when
\* the consumer asks for the line after the sources line.
StreamChatCall ==
    /\ rag.pc = "yielded"
    /\ rag' = [rag EXCEPT !.pc = "streaming"]
    /\ Issue("stream_chat", [messages |-> rag.messages, max_tokens |-> 512])
    /\ UNCHANGED <<events, response, functions, peer, ensurer>>

\* llm_client.py 34-37: a delta arrives; one with content is yielded as
\* a token, one without is skipped.  The d-th delta's content is <<d>>;
\* tokens is the history of the tokens the generator has yielded.
StreamDelta ==
    /\ rag.pc = "streaming"
    /\ rag.deltas < MaxTokens
    /\ \E content \in {NoContent, <<rag.deltas + 1>>} :
          rag' = [rag EXCEPT !.deltas = @ + 1,
                             !.token = content,
                             !.tokens = IF content # NoContent
                                        THEN Append(@, content) ELSE @,
                             !.pc = IF content # NoContent THEN "token" ELSE @]
    /\ UNCHANGED <<calls, outstanding, events, response, functions, peer, ensurer>>

\* rag.py 177 and 203, main.py 99-107: the token's line is handed on.
YieldContent ==
    /\ rag.pc = "token"
    /\ rag' = [rag EXCEPT !.pc = "streaming"]
    /\ events' = Append(events, ContentEvent(rag.token))
    /\ UNCHANGED <<calls, outstanding, response, functions, peer, ensurer>>

\* The generator's stream is exhausted: the function returns, the stream
\* is closed.
StreamEnd ==
    /\ rag.pc = "streaming"
    /\ rag' = [rag EXCEPT !.pc = "done"]
    /\ Return("stream_chat")
    /\ UNCHANGED <<calls, events, response, functions, peer, ensurer>>

StreamFail ==
    /\ rag.pc = "streaming"
    /\ Raise("stream_chat")
    /\ UNCHANGED <<calls, events, response, functions, peer, ensurer>>

\* The frame is parked at an await (rag.py 92-131 and 150-202) or at a
\* yield (rag.py 169, 177, 187 and 203).
Suspended ==
    \/ rag.pc \in {"embed", "dense", "sparse", "rerank", "chat", "chat_fallback",
                   "streaming"}
    \/ rag.pc = "yielded" /\ events # <<>>

\* The caller cancels the request, or its deadline passes: CancelledError
\* (GeneratorExit when the consumer closes the stream) is raised at the
\* suspension point and leaves the frame, which has no handler for it; the
\* awaited call is cancelled with it.
Cancel ==
    /\ Suspended
    /\ rag' = [rag EXCEPT !.pc = "cancelled"]
    /\ outstanding' = {}
    /\ UNCHANGED <<calls, events, response, functions, peer, ensurer>>

NoResponse == [status |-> 0]

\* No second request.
NoPeer == [id |-> 0]

\* A mutant of Resumed: the hits of the dense search are kept in a place
\* the requests share, so the resumed request finds the other's.
ResumedSharingHits(parked) == [parked.rag EXCEPT !.dense_hits = rag.dense_hits]

\* The locals a parked coroutine finds when it is resumed: its own.
Resumed(parked) == parked.rag

\* The running request as it is parked.
Parked(id) ==
    [id |-> id, rag |-> rag, calls |-> calls, outstanding |-> outstanding,
     events |-> events, response |-> response]

\* The event loop runs one coroutine at a time and changes to the other
\* one only where the running one has not started, is suspended or is over
\* (rag.py has no other point where control is given up).
Switch ==
    /\ peer # NoPeer
    /\ Suspended \/ rag.pc \in {"start", "done", "failed", "cancelled"}
    /\ rag' = Resumed(peer)
    /\ calls' = peer.calls
    /\ outstanding' = peer.outstanding
    /\ events' = peer.events
    /\ response' = peer.response
    /\ peer' = Parked(3 - peer.id)
    /\ UNCHANGED <<functions, ensurer>>

\* No request: the state of the orchestrator's variables in the
\* specifications of the pure functions.
PipelineIdle ==
    /\ rag = RagIdle
    /\ peer = NoPeer
    /\ ensurer = EnsurerIdle
    /\ calls = <<>>
    /\ outstanding = {}
    /\ events = <<>>
    /\ response = NoResponse

Init ==
    /\ rag \in RagRequests
    /\ peer = NoPeer
    /\ ensurer = EnsurerIdle
    /\ calls = <<>>
    /\ outstanding = {}
    /\ events = <<>>
    /\ response = NoResponse
    /\ chunker = ChunkerIdle
    /\ assembler = AssemblerIdle
    /\ fuser = FuserIdle
    /\ reranker = RerankerIdle

Next ==
    \/ AskEndpoint \/ ChatStreamEndpoint
    \/ EmbedCall \/ EmbedReturn \/ EmbedFail
    \/ DenseCall \/ DenseReturn \/ DenseFail
    \/ SparseCall \/ SparseReturn \/ SparseFail
    \/ Fuse
    \/ FallbackChatCall \/ FallbackChatReturn \/ FallbackYieldSources
    \/ RerankNoKey \/ RerankCall \/ RerankReturn \/ RerankFail
    \/ BuildContext
    \/ ChatCall \/ ChatReturn \/ ChatFail
    \/ YieldSources \/ StreamChatCall \/ StreamDelta \/ YieldContent
    \/ StreamEnd \/ StreamFail
    \/ Cancel

Spec == Init /\ [][Next]_vars

\* Two requests on one event loop, each single-shot or streaming, each
\* with its own script, with no re-rank key: request 1 runs first, request
\* 2 is parked at its start.
PairRequest(m, n) ==
    [Request("call", m, PairScripts[n].question, None, None) EXCEPT !.script = n]

InitPair ==
    /\ rag \in {PairRequest(m, n) :
                  m \in {"single", "stream"}, n \in 1..Len(PairScripts)}
    /\ calls = <<>>
    /\ outstanding = {}
    /\ events = <<>>
    /\ response = NoResponse
    /\ \E m \in {"single", "stream"}, n \in 1..Len(PairScripts) :
          peer = [id |-> 2, rag |-> PairRequest(m, n), calls |-> <<>>,
                  outstanding |-> {}, events |-> <<>>, response |-> NoResponse]
    /\ chunker = ChunkerIdle
    /\ assembler = AssemblerIdle
    /\ fuser = FuserIdle
    /\ reranker = RerankerIdle
    /\ ensurer = EnsurerIdle

NextPair ==
    \/ EmbedCall \/ EmbedReturn \/ EmbedFail
    \/ DenseCall \/ DenseReturn \/ DenseFail
    \/ SparseCall \/ SparseReturn \/ SparseFail
    \/ Fuse
    \/ FallbackChatCall \/ FallbackChatReturn \/ FallbackYieldSources
    \/ RerankNoKey
    \/ BuildContext
    \/ ChatCall \/ ChatReturn \/ ChatFail
    \/ YieldSources \/ StreamChatCall \/ StreamDelta \/ YieldContent
    \/ StreamEnd \/ StreamFail
    \/ Cancel
    \/ Switch

SpecPair == InitPair /\ [][NextPair]_vars

\* Concurrent ensure_collection calls on one store.
InitEnsure ==
    /\ ensurer \in EnsurerInputs
    /\ rag = RagIdle
    /\ peer = NoPeer
    /\ calls = <<>>
    /\ outstanding = {}
    /\ events = <<>>
    /\ response = NoResponse
    /\ chunker = ChunkerIdle
    /\ assembler = AssemblerIdle
    /\ fuser = FuserIdle
    /\ reranker = RerankerIdle

Callers == 1..Len(ensurer.callers)

NextEnsure ==
    \/ \E c \in Callers : GetCollectionsCall(c)
    \/ \E c \in Callers : GetCollectionsReturn(c)
    \/ \E c \in Callers : EnsureSkip(c)
    \/ \E c \in Callers : CreateCollectionCall(c)
    \/ \E c \in Callers : CreateCollectionReturn(c)
    \/ \E c \in Callers : CreateCollectionFail(c)

SpecEnsure == InitEnsure /\ [][NextEnsure]_vars

\* The two pipeline functions called directly.
InitPipeline ==
    /\ Init
    /\ rag.entry = "call"
    /\ rag.question = <<"q">>
    /\ rag.source_id = None

NextPipeline ==
    \/ EmbedCall \/ EmbedReturn \/ EmbedFail
    \/ DenseCall \/ DenseReturn \/ DenseFail
    \/ SparseCall \/ SparseReturn \/ SparseFail
    \/ Fuse
    \/ FallbackChatCall \/ FallbackChatReturn \/ FallbackYieldSources
    \/ RerankNoKey \/ RerankCall \/ RerankReturn \/ RerankFail
    \/ BuildContext
    \/ ChatCall \/ ChatReturn \/ ChatFail
    \/ YieldSources \/ StreamChatCall \/ StreamDelta \/ YieldContent
    \/ StreamEnd \/ StreamFail
    \/ Cancel

\* The steps at which the frame waits for somebody else: a call is issued
\* and answered, the consumer reads the next line, the generator's stream
\* goes on or ends.
Scheduled ==
    \/ EmbedCall \/ EmbedReturn \/ EmbedFail
    \/ DenseCall \/ DenseReturn \/ DenseFail
    \/ SparseCall \/ SparseReturn \/ SparseFail
    \/ FallbackChatCall \/ FallbackChatReturn \/ FallbackYieldSources
    \/ RerankNoKey \/ RerankCall \/ RerankReturn \/ RerankFail
    \/ ChatCall \/ ChatReturn \/ ChatFail
    \/ YieldSources \/ StreamChatCall \/ StreamDelta \/ YieldContent
    \/ StreamEnd \/ StreamFail
    \/ Cancel

\* Every step is taken in the end: the event loop resumes a coroutine whose
\* awaited call has returned or failed, the consumer keeps reading the
\* stream, and the generator's stream ends.  Fuse and BuildContext are
\* computations of the running coroutine: each is enabled exactly at its
\* own position and leaves it, so WF_vars(Fuse) is []<>(rag.pc #
\* "retrieved") and WF_vars(BuildContext) is []<>(rag.pc # "reranked").
SpecPipeline ==
    /\ InitPipeline
    /\ [][NextPipeline]_vars
    /\ WF_vars(Scheduled)
    /\ []<>(rag.pc # "retrieved")
    /\ []<>(rag.pc # "reranked")

\* chunk_text alone, on every text and every pair of parameters.
InitChunk ==
    /\ chunker \in ChunkInputs
    /\ assembler = AssemblerIdle
    /\ fuser = FuserIdle
    /\ reranker = RerankerIdle
    /\ PipelineIdle

NextChunk == ChunkEmpty \/ ChunkSplit \/ MergePiece \/ ChunkFinish

SpecChunk == InitChunk /\ [][NextChunk]_vars

\* build_context_from_hits alone, on every hit list and every budget.
InitContext ==
    /\ assembler \in AssemblerInputs
    /\ chunker = ChunkerIdle
    /\ fuser = FuserIdle
    /\ reranker = RerankerIdle
    /\ PipelineIdle

NextContext == Assemble

SpecContext == InitContext /\ [][NextContext]_vars

\* reciprocal_rank_fusion alone, on every one or two lists and every k.
InitFuse ==
    /\ fuser \in FuserInputs
    /\ chunker = ChunkerIdle
    /\ assembler = AssemblerIdle
    /\ reranker = RerankerIdle
    /\ PipelineIdle

NextFuse == FuseCall

SpecFuse == InitFuse /\ [][NextFuse]_vars

\* reciprocal_rank_fusion as the pipeline calls it: k = RRF_K (rag.py 106
\* and 164).
InitFuseDefault == InitFuse /\ fuser.k = RRF_K

SpecFuseDefault == InitFuseDefault /\ [][NextFuse]_vars

\* RerankerClient.rerank alone, on every candidate list, key and top_n.
InitRerank ==
    /\ reranker \in RerankerInputs
    /\ chunker = ChunkerIdle
    /\ assembler = AssemblerIdle
    /\ fuser = FuserIdle
    /\ PipelineIdle

NextRerank ==
    RerankFallback \/ RerankBackendCall \/ RerankBackendReturn \/ RerankBackendFail

SpecRerank == InitRerank /\ [][NextRerank]_vars

(***************************************************************************)
(* Properties of the chunker.                                              *)
(***************************************************************************)
\* s[-n:] of Python for n > 0.
LastN(s, n) == IF n >= Len(s) THEN s ELSE DropFirst(s, Len(s) - n)

\* The characters of s that are not whitespace, in order.
NonWS(s) == SelectSeq(s, LAMBDA c : ~IsWhitespace(c))

NonEmpty(s) == s # <<>>

ContractOverlap == chunker.overlap < chunker.max_chars

\* A chunk that is one atomic piece in which no separator is left.
IsUnsplittableToken(c) ==
    /\ \E j \in 1..Len(chunker.pieces) : chunker.pieces[j] = c
    /\ \A k \in 1..Len(SEPARATORS) :
          SEPARATORS[k] # <<>> => ~Contains(c, SEPARATORS[k])

\* C6: for 0 <= overlap < max_chars every chunk is at most max_chars long,
\* except a chunk that is a single unsplittable token with no separator left.
C6_ChunkBound ==
    ContractOverlap =>
        \A k \in 1..Len(chunker.chunks) :
            \/ Len(chunker.chunks[k]) <= chunker.max_chars
            \/ IsUnsplittableToken(chunker.chunks[k])

\* C7: with overlap = 0 every chunk is at most max_chars long.
C7_OverlapZeroBound ==
    chunker.overlap = 0 =>
        \A k \in 1..Len(chunker.chunks) :
            Len(chunker.chunks[k]) <= chunker.max_chars

\* C7 witness: a finished call with overlap 0 on a text longer than
\* max_chars that was cut into several chunks, one of them full.
C7_Witness ==
    /\ chunker.pc = "done"
    /\ chunker.overlap = 0
    /\ Len(chunker.text) > chunker.max_chars
    /\ Len(chunker.chunks) >= 2
    /\ \E k \in 1..Len(chunker.chunks) :
          Len(chunker.chunks[k]) = chunker.max_chars

\* The text of the pieces lo..hi.
PieceText(lo, hi) == Join(SubSeq(chunker.pieces, lo, hi))

EmittedFlushes == SelectSeq(chunker.flushes, LAMBDA f : f.emitted)

\* The pieces concatenate back to the input.
PiecesRebuildText == Join(chunker.pieces) = chunker.text

\* Every piece is placed in a buffer, in input order: the new pieces of the
\* successive buffers partition the pieces, and what a buffer holds before
\* its new pieces is a suffix of its predecessor.
PiecesPlacedInOrder ==
    LET fl == chunker.flushes IN
    /\ fl # <<>>
    /\ fl[1].lo = 1 /\ fl[1].new_lo = 1
    /\ fl[Len(fl)].hi = Len(chunker.pieces)
    /\ \A k \in 1..Len(fl) : fl[k].lo <= fl[k].new_lo /\ fl[k].new_lo <= fl[k].hi
    /\ \A k \in 1..(Len(fl) - 1) :
          /\ fl[k + 1].new_lo = fl[k].hi + 1
          /\ fl[k + 1].lo >= fl[k].lo

\* The chunks are the stripped buffers, in order, without the empty ones.
ChunksAreStrippedBuffers ==
    chunker.chunks =
        SelectSeq([k \in 1..Len(chunker.flushes) |->
                      Strip(PieceText(chunker.flushes[k].lo, chunker.flushes[k].hi))],
                  NonEmpty)

\* Every chunk without the region repeated from its predecessor, the
\* chunks concatenated: the input without its whitespace.
ChunksRebuildText ==
    LET ef == EmittedFlushes IN
    /\ Len(ef) = Len(chunker.chunks)
    /\ NonWS(chunker.text) =
          Join([k \in 1..Len(chunker.chunks) |->
                  DropFirst(NonWS(chunker.chunks[k]),
                            Len(NonWS(PieceText(ef[k].lo, ef[k].new_lo - 1))))])

\* C8 as stated: every (non-empty) piece is in at least one emitted chunk.
C8_EveryPieceEmitted ==
    (chunker.pc = "done" /\ ContractOverlap) =>
        /\ PiecesRebuildText
        /\ \A j \in 1..Len(chunker.pieces) :
              chunker.pieces[j] # <<>> =>
                  \E k \in 1..Len(chunker.flushes) :
                      /\ chunker.flushes[k].emitted
                      /\ chunker.flushes[k].lo <= j
                      /\ j <= chunker.flushes[k].hi
        /\ ChunksRebuildText

\* C8 amended: the pieces concatenate back to the input, every piece is
\* placed in at least one buffer in input order, every buffer is emitted
\* stripped unless it holds only whitespace, and the chunks without their
\* repeated regions reproduce the input up to whitespace.
C8_LosslessUpToWhitespace ==
    (chunker.pc = "done" /\ ContractOverlap) =>
        /\ PiecesRebuildText
        /\ chunker.text # <<>> => PiecesPlacedInOrder
        /\ ChunksAreStrippedBuffers
        /\ ChunksRebuildText

\* C8 witness: a finished call in which a later chunk repeats a region of
\* its predecessor, whitespace was trimmed and a whitespace-only buffer was
\* dropped.
C8_Witness ==
    /\ chunker.pc = "done"
    /\ ContractOverlap
    /\ Len(chunker.chunks) >= 2
    /\ \E k \in 1..Len(chunker.flushes) :
          /\ chunker.flushes[k].emitted
          /\ chunker.flushes[k].lo < chunker.flushes[k].new_lo
          /\ NonWS(PieceText(chunker.flushes[k].lo,
                             chunker.flushes[k].new_lo - 1)) # <<>>
    /\ \E k \in 1..Len(chunker.flushes) : ~chunker.flushes[k].emitted
    /\ NonWS(chunker.text) # chunker.text

\* C9: for a text longer than max_chars and 0 < overlap < max_chars, the
\* stripped last overlap characters of a chunk occur in the next chunk.
C9_OverlapCarried ==
    (/\ Len(chunker.text) > chunker.max_chars
     /\ 0 < chunker.overlap
     /\ ContractOverlap) =>
        \A k \in 1..(Len(chunker.chunks) - 1) :
            Contains(chunker.chunks[k + 1],
                     Strip(LastN(chunker.chunks[k], chunker.overlap)))

\* C10: no returned chunk is empty, and empty input returns no chunk.
C10_NoEmptyChunk ==
    /\ \A k \in 1..Len(chunker.chunks) : Len(chunker.chunks[k]) > 0
    /\ (chunker.pc = "done" /\ chunker.text = <<>>) => chunker.chunks = <<>>

\* C10 witness: a finished call that dropped a whitespace-only buffer and
\* returned a chunk as well.
C10_Witness ==
    /\ chunker.pc = "done"
    /\ chunker.chunks # <<>>
    /\ \E k \in 1..Len(chunker.flushes) : ~chunker.flushes[k].emitted

(***************************************************************************)
(* Properties of the context assembler.                                    *)
(***************************************************************************)
HitText(h) == Get(h.payload, "text", <<>>)

HasText(h) == HitText(h) # <<>>

\* What the first n of the hits cost: each its text and a separator.
RECURSIVE BudgetUsed(_, _)
BudgetUsed(hits, n) ==
    IF n = 0 THEN 0 ELSE BudgetUsed(hits, n - 1) + Len(HitText(hits[n])) + 2

\* The hits with text, up to the first one that does not fit.
IncludedHits(hits, max_chars) ==
    LET with_text == SelectSeq(hits, HasText)
        n == CHOOSE m \in 0..Len(with_text) :
                /\ BudgetUsed(with_text, m) <= max_chars
                /\ m < Len(with_text) => BudgetUsed(with_text, m + 1) > max_chars
    IN SubSeq(with_text, 1, n)

\* The texts occur in s one after the other, in this order.
RECURSIVE OccurInOrder(_, _)
OccurInOrder(s, texts) ==
    IF texts = <<>> THEN TRUE
    ELSE LET p == Find(s, Head(texts))
         IN /\ p # 0
            /\ OccurInOrder(DropFirst(s, p + Len(Head(texts)) - 1), Tail(texts))

SourceTexts == [i \in 1..Len(assembler.sources) |-> assembler.sources[i].text]

\* The sources are the included hits in rank order, one per appended part.
SourcesAreIncludedHits ==
    LET inc == IncludedHits(assembler.hits, assembler.max_chars) IN
    /\ assembler.sources =
          [i \in 1..Len(inc) |-> RAGSource(inc[i].score, inc[i].payload)]
    /\ assembler.context_parts =
          [i \in 1..Len(inc) |-> HitText(inc[i]) \o <<NL, NL>>]

\* C4: the context is at most max_chars long.
C4_ContextBudget ==
    assembler.pc = "done" => Len(assembler.context) <= assembler.max_chars

\* C5 as stated: the sources are the included hits in rank order, and the
\* full text of every source occurs in the context, in source order.
C5_FullTextInContext ==
    assembler.pc = "done" =>
        /\ SourcesAreIncludedHits
        /\ OccurInOrder(assembler.context, SourceTexts)

\* C5 amended: the sources are the included hits in rank order (hits
\* without text skipped, the walk ended by the first hit that does not
\* fit), and the text of every source, trimmed of the whitespace at its
\* edges, occurs in the context in source order; the context has every
\* non-whitespace character of the sources' texts and no other.
C5_TrimmedTextInContext ==
    assembler.pc = "done" =>
        /\ SourcesAreIncludedHits
        /\ OccurInOrder(assembler.context,
                        [i \in 1..Len(SourceTexts) |-> Strip(SourceTexts[i])])
        /\ NonWS(assembler.context) = NonWS(Join(SourceTexts))

\* C5 witness: a walk that skipped a hit without text before a source,
\* ended at a hit that did not fit although a later one would have, and
\* returned a source whose text has whitespace at an edge.
C5_Witness ==
    LET hits == assembler.hits
        used == BudgetUsed(SelectSeq(hits, HasText), Len(assembler.sources))
    IN
    /\ assembler.pc = "done"
    /\ assembler.sources # <<>>
    /\ \E i \in 1..Len(hits) :
          /\ ~HasText(hits[i])
          /\ \E j \in 1..Len(assembler.sources) :
                assembler.sources[j].score < hits[i].score
    /\ \E i \in 1..Len(hits) :
          /\ HasText(hits[i])
          /\ hits[i].score < assembler.sources[Len(assembler.sources)].score
          /\ used + Len(HitText(hits[i])) + 2 <= assembler.max_chars
    /\ \E j \in 1..Len(assembler.sources) :
          Strip(assembler.sources[j].text) # assembler.sources[j].text

(***************************************************************************)
(* Properties of the orchestrator.                                         *)
(***************************************************************************)
SourcesLines == {i \in 1..Len(events) : events[i].type = "sources"}

ContentLines == {i \in 1..Len(events) : events[i].type = "content"}

\* The data of the content lines, in stream order.
ContentData ==
    LET content == SelectSeq(events, LAMBDA e : e.type = "content")
    IN [i \in 1..Len(content) |-> content[i].data]

Completed == rag.pc = "done"

\* C1: a streaming query that runs to completion has emitted exactly one
\* sources line, before every content line.
C1_ExactlyOneSourcesFirst ==
    (rag.mode = "stream" /\ Completed) =>
        /\ Cardinality(SourcesLines) = 1
        /\ \A i \in SourcesLines : \A j \in ContentLines : i < j

\* C2: a stream has at most one sources line, which is its first line and
\* is handed over before the generator's streaming call is issued; every
\* other line is a content line, one per token the generator yielded and
\* in the generator's order.
C2_StreamShape ==
    /\ [](/\ Cardinality(SourcesLines) <= 1
          /\ SourcesLines \subseteq {1}
          /\ \A i \in 1..Len(events) : i > 1 => events[i].type = "content"
          /\ \A i \in 1..Len(events) : events[i].type \in {"sources", "content"}
          /\ ContentData = IF rag.pc = "token"
                           THEN SubSeq(rag.tokens, 1, Len(rag.tokens) - 1)
                           ELSE rag.tokens)
    /\ [][(SourcesLines' # SourcesLines) =>
              \A i \in 1..Len(calls') : calls'[i].fn # "stream_chat"]_vars

\* C2 witness: a finished stream of a sources line that names a source and
\* two content lines.
C2_Witness ==
    /\ rag.mode = "stream"
    /\ Completed
    /\ Len(events) = 3
    /\ events[1].type = "sources"
    /\ events[1].data # <<>>
    /\ events[2].type = "content"
    /\ events[3].type = "content"

\* C3: the sparse search is issued while the dense search is outstanding.
C3_SearchesConcurrent ==
    [][("sparse_search" \in outstanding' /\ "sparse_search" \notin outstanding) =>
          "search" \in outstanding']_vars

(***************************************************************************)
(* Properties of the rank fusion.                                          *)
(***************************************************************************)
\* The (list, rank) positions of the input in the order the loops visit
\* them, each with its fusion key.
RECURSIVE Positions(_, _)
Positions(ranked_lists, n) ==
    IF n > Len(ranked_lists) THEN <<>>
    ELSE [r \in 1..Len(ranked_lists[n]) |->
             [list |-> n, rank |-> r, key |-> DocKey(ranked_lists[n][r].payload),
              payload |-> ranked_lists[n][r].payload]]
         \o Positions(ranked_lists, n + 1)

PositionsOf(ranked_lists, key) ==
    SelectSeq(Positions(ranked_lists, 1), LAMBDA p : p.key = key)

FusionKeys(ranked_lists) ==
    LET ps == Positions(ranked_lists, 1) IN {ps[i].key : i \in 1..Len(ps)}

\* How many positions come before the first one of the key.
FirstSeen(ranked_lists, key) ==
    LET ps == Positions(ranked_lists, 1)
    IN Cardinality({i \in 1..Len(ps) : \A j \in 1..i : ps[j].key # key})

\* The lists a key occurs in.
ListsOf(ranked_lists, key) ==
    {n \in 1..Len(ranked_lists) :
        \E r \in 1..Len(ranked_lists[n]) : DocKey(ranked_lists[n][r].payload) = key}

\* The sum of 1/(k + rank) over the positions, as a real number.
RECURSIVE ExactSum(_, _)
ExactSum(ps, k) ==
    IF ps = <<>> THEN Frac(0, 1)
    ELSE FracAdd(ExactSum(SubSeq(ps, 1, Len(ps) - 1), k), Frac(1, k + ps[Len(ps)].rank))

\* The same sum in doubles, added position by position.
RECURSIVE ComputedSum(_, _)
ComputedSum(ps, k) ==
    IF ps = <<>> THEN FloatZero
    ELSE FloatAdd(ComputedSum(SubSeq(ps, 1, Len(ps) - 1), k),
                  FloatRecip(k + ps[Len(ps)].rank))

ExactScore(ranked_lists, key, k) == ExactSum(PositionsOf(ranked_lists, key), k)
ComputedScore(ranked_lists, key, k) == ComputedSum(PositionsOf(ranked_lists, key), k)

ResultKeys(result) == [i \in 1..Len(result) |-> DocKey(result[i].payload)]

\* One entry per distinct fusion key of the input.
OneEntryPerKey(ranked_lists, result) ==
    LET keys == FusionKeys(ranked_lists)
    IN /\ Len(result) = Cardinality(keys)
       /\ {DocKey(result[i].payload) : i \in 1..Len(result)} = keys

FuseP1 == [text |-> <<"a">>, source_file |-> <<"f">>]
FuseP2 == [text |-> <<"b">>, source_file |-> <<"f">>]
FuseP3 == [text |-> <<"c">>, source_file |-> <<"f">>]

\* The scenario of the specification: dense [P1, P2, P3], sparse
\* [P2, P3, P1], k = 60.
FuseScenario ==
    /\ fuser.ranked_lists = <<Ranked(<<FuseP1, FuseP2, FuseP3>>),
                              Ranked(<<FuseP2, FuseP3, FuseP1>>)>>
    /\ fuser.k = RRF_K

FuseDone == fuser.pc = "done"

\* C11 as stated: one entry per distinct key, ordered by the sum of
\* 1/(k + rank) over the key's positions, descending, keys with equal sums
\* in first-seen order; the scenario places P2 first.
C11_OrderedBySum ==
    FuseDone =>
        LET ls == fuser.ranked_lists
            keys == ResultKeys(fuser.result)
        IN /\ OneEntryPerKey(ls, fuser.result)
           /\ \A i, j \in 1..Len(keys) : i < j =>
                 /\ ~FracLess(ExactScore(ls, keys[i], fuser.k),
                              ExactScore(ls, keys[j], fuser.k))
                 /\ ExactScore(ls, keys[i], fuser.k) = ExactScore(ls, keys[j], fuser.k)
                       => FirstSeen(ls, keys[i]) < FirstSeen(ls, keys[j])
           /\ FuseScenario => fuser.result[1].payload = FuseP2

\* C11 amended: one entry per distinct key, carrying the payload of the
\* key's last position and the double-precision sum of 1.0/(k + rank) added
\* in the order of the positions; the entries are ordered by that computed
\* score, descending, entries with equal computed scores in first-seen
\* order; the scenario places P2 first.
C11_OrderedByComputedSum ==
    FuseDone =>
        LET ls == fuser.ranked_lists
            keys == ResultKeys(fuser.result)
        IN /\ OneEntryPerKey(ls, fuser.result)
           /\ \A i \in 1..Len(keys) :
                 LET ps == PositionsOf(ls, keys[i])
                 IN /\ fuser.result[i].score = ComputedScore(ls, keys[i], fuser.k)
                    /\ fuser.result[i].payload = ps[Len(ps)].payload
           /\ \A i, j \in 1..Len(keys) : i < j =>
                 /\ ~FloatLess(fuser.result[i].score, fuser.result[j].score)
                 /\ fuser.result[i].score = fuser.result[j].score
                       => FirstSeen(ls, keys[i]) < FirstSeen(ls, keys[j])
           /\ FuseScenario => fuser.result[1].payload = FuseP2

C11_Witness ==
    /\ FuseDone
    /\ FuseScenario
    /\ ResultKeys(fuser.result) = <<DocKey(FuseP2), DocKey(FuseP1), DocKey(FuseP3)>>

\* The chunk a hit stands for: its source file and its text.
ChunkOf(payload) == <<Get(payload, "source_file", None), Get(payload, "text", None)>>

InputChunks(ranked_lists) ==
    LET ps == Positions(ranked_lists, 1)
    IN {ChunkOf(ps[i].payload) : i \in 1..Len(ps)}

\* C12: hits are merged into one entry only when they are the same chunk
\* (same source file and same text): every chunk of the input has an entry
\* of its own in the output.
C12_MergeOnlySameChunk ==
    FuseDone =>
        /\ Len(fuser.result) = Cardinality(InputChunks(fuser.ranked_lists))
        /\ \A c \in InputChunks(fuser.ranked_lists) :
              \E i \in 1..Len(fuser.result) : ChunkOf(fuser.result[i].payload) = c

ResultScore(key) ==
    LET i == CHOOSE i \in 1..Len(fuser.result) : DocKey(fuser.result[i].payload) = key
    IN fuser.result[i].score

InOneList(ranked_lists) ==
    {key \in FusionKeys(ranked_lists) : Cardinality(ListsOf(ranked_lists, key)) = 1}

InSeveralLists(ranked_lists) ==
    {key \in FusionKeys(ranked_lists) : Cardinality(ListsOf(ranked_lists, key)) >= 2}

SingleBelowConfirmed ==
    /\ OneEntryPerKey(fuser.ranked_lists, fuser.result)
    /\ \A a \in InOneList(fuser.ranked_lists) :
          \A b \in InSeveralLists(fuser.ranked_lists) :
              FloatLess(ResultScore(a), ResultScore(b))

\* C13 as stated: for k >= 1 and lists of any length, a hit found by exactly
\* one list is in the output with a score strictly below that of every hit
\* found by two or more lists.
C13_SingleListBelowMulti ==
    (FuseDone /\ fuser.k >= 1) => SingleBelowConfirmed

\* No key twice in one list, and every list shorter than k + 2.
KeysOncePerList(ranked_lists) ==
    \A key \in FusionKeys(ranked_lists) :
        Len(PositionsOf(ranked_lists, key)) = Cardinality(ListsOf(ranked_lists, key))

ShorterThan(ranked_lists, n) ==
    \A i \in 1..Len(ranked_lists) : Len(ranked_lists[i]) < n

\* C13 amended: every key of the input is in the output, and when no fusion
\* key occurs twice in one list and every list is shorter than k + 2, a hit
\* found by exactly one list has a score strictly below that of every hit
\* found by two or more lists.
C13_SingleListBelowMultiShortLists ==
    (FuseDone /\ fuser.k >= 1) =>
        /\ OneEntryPerKey(fuser.ranked_lists, fuser.result)
        /\ (/\ KeysOncePerList(fuser.ranked_lists)
            /\ ShorterThan(fuser.ranked_lists, fuser.k + 2)) => SingleBelowConfirmed

C13_Witness ==
    /\ FuseDone
    /\ KeysOncePerList(fuser.ranked_lists)
    /\ ShorterThan(fuser.ranked_lists, fuser.k + 2)
    /\ Len(fuser.ranked_lists[1]) = MaxRank
    /\ InOneList(fuser.ranked_lists) # {}
    /\ InSeveralLists(fuser.ranked_lists) # {}
    /\ FloatLess(fuser.result[Len(fuser.result)].score, fuser.result[1].score)

ScoreIn(result, key) ==
    LET i == CHOOSE i \in 1..Len(result) : DocKey(result[i].payload) = key
    IN result[i].score

KeysOf(ranked_list) ==
    {DocKey(ranked_list[r].payload) : r \in 1..Len(ranked_list)}

Reversed(s) == [i \in 1..Len(s) |-> s[Len(s) + 1 - i]]

\* The list with the hit at rank r moved up by one rank.
MoveUp(ranked_list, r) ==
    [i \in 1..Len(ranked_list) |->
        IF i = r - 1 THEN ranked_list[r]
        ELSE IF i = r THEN ranked_list[r - 1] ELSE ranked_list[i]]

\* Permuting the lists leaves the score of every key with at most `most`
\* contributions unchanged.
PermutationKeepsScores(most) ==
    LET ls == fuser.ranked_lists
        other == ReciprocalRankFusion(Reversed(ls), fuser.k)
    IN /\ OneEntryPerKey(ls, other)
       /\ \A key \in FusionKeys(ls) :
             Len(PositionsOf(ls, key)) <= most
                => ScoreIn(other, key) = ScoreIn(fuser.result, key)

\* Compared with fusing the first list alone, the second list raises the
\* score of every hit of the first list that it contains.
FurtherListRaises ==
    LET ls == fuser.ranked_lists
        before == ReciprocalRankFusion(<<ls[1]>>, fuser.k)
    IN Len(ls) = 2 =>
          \A key \in KeysOf(ls[1]) \cap KeysOf(ls[2]) :
              FloatLess(ScoreIn(before, key), ScoreIn(fuser.result, key))

\* Moving a hit up by one rank in one list raises its score; with
\* distinctOnly, only when it passes a hit with another key.
BetterRankRaises(distinctOnly) ==
    LET ls == fuser.ranked_lists
    IN \A n \in 1..Len(ls) : \A r \in 2..Len(ls[n]) :
          LET key == DocKey(ls[n][r].payload)
              moved == ReciprocalRankFusion([ls EXCEPT ![n] = MoveUp(ls[n], r)], fuser.k)
          IN (distinctOnly => DocKey(ls[n][r - 1].payload) # key)
                => FloatLess(ScoreIn(fuser.result, key), ScoreIn(moved, key))

\* Fusing [L, L] gives every hit of L a higher score than fusing [L], and
\* the same order.
TwiceRaisesKeepsOrder ==
    LET ls == fuser.ranked_lists
        twice == ReciprocalRankFusion(<<ls[1], ls[1]>>, fuser.k)
    IN Len(ls) = 1 =>
          /\ ResultKeys(twice) = ResultKeys(fuser.result)
          /\ \A key \in KeysOf(ls[1]) :
                FloatLess(ScoreIn(fuser.result, key), ScoreIn(twice, key))

\* C14 as stated: a hit's score is unchanged by permuting the lists, rises
\* when a further list containing it is added, rises when it moves to a
\* better rank in one list, and [L, L] raises every score of [L] and keeps
\* the order.
C14_ScoreAlgebra ==
    FuseDone =>
        /\ PermutationKeepsScores(2 * MaxRank)
        /\ FurtherListRaises
        /\ BetterRankRaises(FALSE)
        /\ TwiceRaisesKeepsOrder

\* C14 amended: permuting the lists leaves the set of keys unchanged and the
\* score of every key with at most two contributions unchanged; a further
\* list containing a hit raises its score; moving a hit up past a hit with
\* another key raises its score; [L, L] raises every score of [L] and keeps
\* the order.
C14_ScoreAlgebraComputed ==
    FuseDone =>
        /\ PermutationKeepsScores(2)
        /\ FurtherListRaises
        /\ BetterRankRaises(TRUE)
        /\ TwiceRaisesKeepsOrder

C14_Witness ==
    /\ FuseDone
    /\ Len(fuser.ranked_lists) = 2
    /\ fuser.ranked_lists[1] # fuser.ranked_lists[2]
    /\ Len(fuser.ranked_lists[1]) >= 2
    /\ KeysOf(fuser.ranked_lists[1]) \cap KeysOf(fuser.ranked_lists[2]) # {}
    /\ \E key \in FusionKeys(fuser.ranked_lists) :
          Len(PositionsOf(fuser.ranked_lists, key)) = 2

(***************************************************************************)
(* Properties of the retrieval, fallback and re-rank stages of a request.  *)
(***************************************************************************)
CallsTo(fns) == SelectSeq(calls, LAMBDA c : c.fn \in fns)

GeneratorCalls == CallsTo({"chat", "stream_chat"})

\* Both searches have returned: the sparse search is over and the frame
\* has gone on, to a later call or to a yield.
Retrieved ==
    /\ Len(CallsTo({"sparse_search"})) = 1
    /\ "sparse_search" \notin outstanding
    /\ \/ rag.pc \notin {"sparse", "failed", "cancelled"}
       \/ calls[Len(calls)].fn # "sparse_search"
       \/ events # <<>>

\* The fused list has been computed.
Fused == Retrieved /\ rag.pc # "retrieved"

SingleShotResult == rag.mode = "single" /\ Completed

\* C15: when both searches return no hits the fused list is empty, the
\* re-ranker is never invoked, the generator is invoked exactly once and the
\* single-shot result has used_rag = FALSE and no sources.
C15_NoHitsFallback ==
    (Retrieved /\ rag.dense_hits = <<>> /\ rag.sparse_hits = <<>>) =>
        /\ rag.hits = <<>>
        /\ CallsTo({"rerank", "backend_rerank"}) = <<>>
        /\ Len(GeneratorCalls) <= 1
        /\ Completed => Len(GeneratorCalls) = 1
        /\ SingleShotResult =>
              /\ response.used_rag = FALSE
              /\ response.sources = <<>>

C15_Witness ==
    /\ SingleShotResult
    /\ rag.dense_hits = <<>>
    /\ rag.sparse_hits = <<>>
    /\ Len(CallsTo({"chat"})) = 1
    /\ response.used_rag = FALSE

NO_DOCUMENTS_WERE_FOUND ==
    <<"N", "o", " ", "d", "o", "c", "u", "m", "e", "n", "t", "s", " ",
      "w", "e", "r", "e", " ", "f", "o", "u", "n", "d">>

\* C16: in the no-hits branch the system message handed to the generator
\* contains the text "No documents were found", single-shot and streaming.
C16_FallbackPromptText ==
    (Fused /\ rag.hits = <<>>) =>
        \A i \in 1..Len(GeneratorCalls) :
            LET system == GeneratorCalls[i].args.messages[1]
            IN /\ system.role = "system"
               /\ Contains(system.content, NO_DOCUMENTS_WERE_FOUND)

\* The hits of a list that have text, in order.
WithText(hits) == SelectSeq(hits, LAMBDA h : Get(h.payload, "text", <<>>) # <<>>)

\* The re-ranker was invoked once, on the fused list, with top_n = RERANK_N,
\* and the generator once.
RerankedOnce ==
    /\ Len(CallsTo({"rerank"})) = 1
    /\ CallsTo({"rerank"})[1].args.documents = rag.hits
    /\ CallsTo({"rerank"})[1].args.top_n = RERANK_N
    /\ RERANK_N = 5
    /\ Len(GeneratorCalls) = 1

SearchCalls == CallsTo({"search", "sparse_search"})

\* C18: the two searches get the same filter and the same budget: the
\* filter {source_id: s} when a source id s is given (not empty), none
\* otherwise, and top_k = SEARCH_K = 20.
C18_SameFilterAndBudget ==
    /\ Len(SearchCalls) <= 2
    /\ Retrieved => Len(SearchCalls) = 2
    /\ \A i \in 1..Len(SearchCalls) :
          /\ SearchCalls[i].fn = IF i = 1 THEN "search" ELSE "sparse_search"
          /\ SearchCalls[i].args.top_k = SEARCH_K
          /\ SEARCH_K = 20
          /\ SearchCalls[i].args.filter_metadata =
                IF rag.source_id \in {None, <<>>} THEN None
                ELSE [source_id |-> rag.source_id]

C18_Witness ==
    /\ Retrieved
    /\ rag.source_id = <<"s">>
    /\ SearchCalls[1].args.filter_metadata = [source_id |-> <<"s">>]
    /\ SearchCalls[2].args.filter_metadata = [source_id |-> <<"s">>]

(***************************************************************************)
(* The re-ranker (SpecRerank)                                              *)
(***************************************************************************)
RerankDone == reranker.pc = "done"

NoKey == Falsy(reranker.cohere_api_key)

\* C19: with no backend key (absent or empty), for every candidate list
\* and every top_n >= 0, rerank returns exactly the first
\* min(top_n, len(docs)) candidates, with order, scores and payloads
\* unchanged, makes no backend call and never raises.
C19_NoKeyPrefix ==
    NoKey =>
        /\ reranker.pc \in {"start", "done"}
        /\ reranker.backend_calls = <<>>
        /\ RerankDone =>
              /\ Len(reranker.result) = Min(reranker.top_n, Len(reranker.documents))
              /\ \A i \in 1..Len(reranker.result) :
                    /\ reranker.result[i].score = reranker.documents[i].score
                    /\ reranker.result[i].payload = reranker.documents[i].payload

C19_Witness ==
    /\ RerankDone
    /\ reranker.cohere_api_key = <<>>
    /\ reranker.top_n = 2
    /\ Len(reranker.documents) = 3
    /\ Len(reranker.result) = 2
    /\ reranker.result[2] = reranker.documents[2]

\* The text of a candidate as the backend gets it: "" when the payload
\* has none.
TextOf(document) ==
    IF "text" \in DOMAIN document.payload THEN document.payload.text ELSE <<>>

\* C20: with a backend key, rerank calls the backend exactly once, with the
\* query, the texts of all candidates in input order and top_n; it returns,
\* in the backend's order, one pair (relevance score, payload of
\* documents[index]) per backend result, so the scores of the output are the
\* backend's, and the output is as long as the backend's answer: at most
\* top_n and at most len(documents) for a backend that answers with at most
\* top_n distinct indices in range.
C20_BackendCallAndMapping ==
    ~NoKey =>
        /\ Len(reranker.backend_calls) = IF reranker.pc = "start" THEN 0 ELSE 1
        /\ \A c \in 1..Len(reranker.backend_calls) :
              LET call == reranker.backend_calls[c]
              IN /\ call.query = reranker.query
                 /\ call.top_n = reranker.top_n
                 /\ Len(call.documents) = Len(reranker.documents)
                 /\ \A i \in 1..Len(reranker.documents) :
                       call.documents[i] = TextOf(reranker.documents[i])
        /\ RerankDone =>
              /\ Len(reranker.result) = Len(reranker.response)
              /\ Len(reranker.result) <= reranker.top_n
              /\ Len(reranker.result) <= Len(reranker.documents)
              /\ \A j \in 1..Len(reranker.result) :
                    LET rank == reranker.response[j]
                    IN /\ reranker.result[j].score = rank.relevance_score
                       /\ reranker.result[j].payload =
                             reranker.documents[rank.index + 1].payload

C20_Witness ==
    /\ RerankDone
    /\ ~NoKey
    /\ Len(reranker.documents) = 3
    /\ reranker.top_n = 2
    /\ Len(reranker.response) = 2
    /\ reranker.response[1].index = 2
    /\ reranker.response[2].index = 0
    /\ "text" \notin DOMAIN reranker.documents[3].payload
    /\ TextOf(reranker.documents[1]) = <<"a">>
    /\ reranker.result[1].payload = reranker.documents[3].payload
    /\ reranker.result[2].payload = reranker.documents[1].payload
    /\ reranker.backend_calls[1].documents[3] = <<>>

(***************************************************************************)
(* The sizes of pieces, seeded buffers and chunks (SpecChunk)              *)
(***************************************************************************)
\* The buffers of the call so far: the flushed ones and, while the merge
\* runs, the one being filled.
Buffers ==
    IF chunker.pc = "merge"
    THEN Append(chunker.flushes,
                [lo |-> chunker.lo, new_lo |-> chunker.new_lo,
                 hi |-> chunker.i - 1, emitted |-> FALSE])
    ELSE chunker.flushes

\* What buffer b was seeded with: the pieces it held before its first new
\* piece.
Seed(b) == PieceText(b.lo, b.new_lo - 1)

\* C28: for every text, max_chars >= 1 and overlap >= 0, every atomic piece
\* is at most max_chars long; the buffer seeded for the next chunk is a
\* suffix, in piece order, of the buffer just emitted and is shorter than
\* overlap + max_chars; so every chunk is shorter than
\* overlap + 2 * max_chars.
C28_PieceSeedChunkBounds ==
    LET bs == Buffers IN
    /\ \A j \in 1..Len(chunker.pieces) :
          Len(chunker.pieces[j]) <= chunker.max_chars
    /\ \A k \in 2..Len(bs) :
          /\ bs[k].new_lo = bs[k - 1].hi + 1
          /\ bs[k].lo >= bs[k - 1].lo
          /\ bs[k].lo <= bs[k].new_lo
          /\ Len(Seed(bs[k])) < chunker.overlap + chunker.max_chars
    /\ \A k \in 1..Len(chunker.chunks) :
          Len(chunker.chunks[k]) < chunker.overlap + 2 * chunker.max_chars

\* C28 witness: a finished call with an overlap at least max_chars, a
\* buffer seeded with more than max_chars characters and a chunk longer
\* than max_chars.
C28_Witness ==
    /\ chunker.pc = "done"
    /\ chunker.overlap >= chunker.max_chars
    /\ Len(chunker.flushes) >= 2
    /\ \E k \in 2..Len(chunker.flushes) :
          Len(Seed(chunker.flushes[k])) > chunker.max_chars
    /\ \E k \in 1..Len(chunker.chunks) :
          Len(chunker.chunks[k]) > chunker.max_chars

(***************************************************************************)
(* Failures and cancellation (Spec)                                        *)
(***************************************************************************)
Failed == rag.pc = "failed"

\* A collaborator call fails.
CollaboratorFails == EmbedFail \/ DenseFail \/ SparseFail \/ RerankFail \/ ChatFail

CollaboratorFns ==
    {"embed_texts", "search", "sparse_search", "rerank", "backend_rerank", "chat"}

\* No AskResponse came back: nothing at all, or the endpoint's error.
NoAskResponse == response = NoResponse \/ response.status = 500

\* C21: when a collaborator call of a single-shot request fails (embed,
\* dense search, sparse search, re-rank or generate) the request aborts: no
\* later stage is invoked, no call is made twice, the fusion is computed
\* only when both searches have returned, and no AskResponse comes back (the
\* /ask caller gets an error).
C21_FailureAborts ==
    /\ [](rag.mode = "single" =>
            /\ \A fn \in CollaboratorFns : Len(CallsTo({fn})) <= 1
            /\ rag.hits # <<>> => Retrieved
            /\ Failed => NoAskResponse
            /\ (Failed /\ rag.entry = "http") => response.status = 500)
    /\ [][rag.mode = "single" =>
            /\ CollaboratorFails => (rag'.pc = "failed" /\ calls' = calls)
            /\ ~Failed]_vars

\* C21 witness: the sparse search of a single-shot request failed after the
\* dense search had returned hits: nothing was fused, nothing came back.
C21_Witness ==
    /\ rag.mode = "single"
    /\ Failed
    /\ Len(calls) = 3
    /\ calls[3].fn = "sparse_search"
    /\ rag.dense_hits # <<>>
    /\ rag.hits = <<>>
    /\ response = NoResponse

IsPrefix(s, t) == Len(s) <= Len(t) /\ SubSeq(t, 1, Len(s)) = s

\* C22: in streaming mode a failure of embed, retrieval or re-rank ends the
\* stream with no event emitted; a failure of the generator after the
\* sources line ends the stream with no further event; the events already
\* delivered are unchanged.
C22_StreamFailure ==
    /\ []((rag.mode = "stream" /\ Failed /\ CallsTo({"stream_chat"}) = <<>>) =>
            events = <<>>)
    /\ [][rag.mode = "stream" =>
            /\ (EmbedFail \/ DenseFail \/ SparseFail \/ RerankFail) =>
                  (rag'.pc = "failed" /\ events' = <<>>)
            /\ StreamFail => (rag'.pc = "failed" /\ events' = events)
            /\ Failed => events' = events
            /\ IsPrefix(events, events')]_vars

\* C22 witness: the generator failed after the sources line and one content
\* line had been delivered: the stream holds these two lines.
C22_Witness ==
    /\ rag.mode = "stream"
    /\ Failed
    /\ Len(CallsTo({"stream_chat"})) = 1
    /\ Len(events) = 2
    /\ events[1].type = "sources"
    /\ events[1].data # <<>>
    /\ events[2].type = "content"

Cancelled == rag.pc = "cancelled"

\* C23: when a streaming request is cancelled or times out at a suspension
\* point (embed, either search, re-rank, generation start, between tokens),
\* the lines delivered are never a sources line followed by no content
\* line, and no collaborator call is started after the cancellation.
C23_CancelNoBareSources ==
    /\ []((rag.mode = "stream" /\ Cancelled) =>
            ~(SourcesLines # {} /\ ContentLines = {}))
    /\ [][Cancelled => calls' = calls]_vars

(***************************************************************************)
(* The request model and the /ask endpoint (Spec)                          *)
(***************************************************************************)
\* C24: a request whose question is empty is rejected before any embedding
\* or retrieval: neither embed_texts nor either search is ever invoked for
\* it.
C24_EmptyQuestionRejected ==
    rag.question = <<>> =>
        CallsTo({"embed_texts", "search", "sparse_search"}) = <<>>

\* C25: an ask request carries an optional source_id (None when not
\* supplied), and POST /ask with question q and source_id s invokes the
\* pipeline once with them and answers with the pipeline's result and
\* status 200: so the request does not fail before the pipeline's first
\* call, and never ends in an error without a collaborator having failed.
C25_AskInvokesPipeline ==
    (rag.entry = "http" /\ rag.mode = "single") =>
        /\ Failed => calls # <<>>
        /\ response # NoResponse => "answer" \in DOMAIN response

(***************************************************************************)
(* The order of the stages (SpecPipeline)                                  *)
(***************************************************************************)
CallNames == [i \in 1..Len(calls) |-> calls[i].fn]

GeneratorFn == IF rag.mode = "single" THEN "chat" ELSE "stream_chat"

RetrievalPlan == <<"embed_texts", "search", "sparse_search">>

\* The calls of a request whose fused list is known, when every call
\* returns.
StagePlan ==
    RetrievalPlan
    \o (IF rag.hits = <<>> THEN <<>>
        ELSE IF Falsy(rag.cohere_api_key) THEN <<"rerank">>
        ELSE <<"rerank", "backend_rerank">>)
    \o <<GeneratorFn>>

Terminal == rag.pc \in {"done", "failed", "cancelled"}

\* The step issues a call of one of fns.
Issues(fns) == Len(SelectSeq(calls', LAMBDA c : c.fn \in fns)) > Len(CallsTo(fns))

\* The context has been assembled from what the re-ranker returned.
Assembled ==
    /\ Len(CallsTo({"rerank"})) = 1
    /\ "rerank" \notin outstanding
    /\ rag.context = BuildContextFromHits(rag.final_hits, DEFAULT_MAX_CHARS).context

\* C27: in every execution the collaborator calls occur in the order embed,
\* dense search, sparse search, re-rank (has-hits branch only), generate,
\* each at most once; re-rank is invoked only after both searches have
\* returned, generate only after the context has been assembled (or right
\* after the fusion in the no-hits branch); and when every call returns
\* (no call fails, the request is not cancelled) the request completes, in
\* both branches.
C27_StageOrder ==
    /\ [](/\ IF Fused THEN IsPrefix(CallNames, StagePlan)
                    ELSE IsPrefix(CallNames, RetrievalPlan)
          /\ Completed => CallNames = StagePlan)
    /\ [][/\ Issues({"rerank"}) => (Fused /\ rag.hits # <<>>)
          /\ Issues({"chat", "stream_chat"}) =>
                (Fused /\ (rag.hits # <<>> => Assembled))
          /\ (rag'.pc \in {"failed", "cancelled"}) =>
                (CollaboratorFails \/ StreamFail \/ Cancel)]_vars
    /\ <>Terminal

\* C27 witness: a streaming request with a re-rank key and hits has
\* completed: every stage was called, once, in order.
C27_Witness ==
    /\ Completed
    /\ rag.mode = "stream"
    /\ CallNames = <<"embed_texts", "search", "sparse_search", "rerank",
                     "backend_rerank", "stream_chat">>
    /\ rag.hits # <<>>
    /\ events # <<>>

(***************************************************************************)
(* Two requests side by side (SpecPair)                                    *)
(***************************************************************************)
\* The two requests: the running one and the parked one.
Running == Parked(3 - peer.id)

Requests == {Running, peer}

\* What a request gets when it runs alone on its script: the fused list,
\* the re-ranked list (no key: the first RERANK_N), the context and the
\* sources.
AloneFused(r) ==
    ReciprocalRankFusion(<<PairScripts[r.rag.script].dense,
                           PairScripts[r.rag.script].sparse>>, RRF_K)

AloneBuilt(r) ==
    BuildContextFromHits(RerankPassThrough(AloneFused(r), RERANK_N),
                         DEFAULT_MAX_CHARS)

AloneMessages(r) ==
    IF AloneFused(r) = <<>> THEN FallbackMessages(r.rag.question)
    ELSE RagMessages(r.rag.question, AloneBuilt(r).context)

AloneResponse(r) ==
    AskResponse(<<"answer">>,
                IF AloneFused(r) = <<>> THEN <<>> ELSE AloneBuilt(r).sources,
                AloneFused(r) # <<>>)

\* The lines of the stream: the sources line (none when there are hits
\* and no source) and one content line per token the generator gave this
\* request.
AloneEvents(r) ==
    (IF AloneFused(r) = <<>> THEN <<SourcesEvent(<<>>)>>
     ELSE IF AloneBuilt(r).sources # <<>> THEN <<SourcesEvent(AloneBuilt(r).sources)>>
     ELSE <<>>)
    \o [i \in 1..Len(r.rag.tokens) |-> ContentEvent(r.rag.tokens[i])]

GeneratorCallsOf(r) == SelectSeq(r.calls, LAMBDA c : c.fn \in {"chat", "stream_chat"})

\* C26: the pipeline is stateless across requests: for two requests run
\* side by side, under every interleaving at their suspension points, each
\* request's result (answer, sources, used_rag, or its lines) is the one it
\* produces alone on the same collaborator responses; on the way there its
\* calls carry its own question, its retrieved lists are its own and its
\* lines are a prefix of its own stream.
C26_StatelessAcrossRequests ==
    /\ peer.id \in {1, 2}
    /\ \A r \in Requests :
          /\ r.rag.dense_hits \in {<<>>, PairScripts[r.rag.script].dense}
          /\ r.rag.sparse_hits \in {<<>>, PairScripts[r.rag.script].sparse}
          /\ r.rag.hits \in {<<>>, AloneFused(r)}
          /\ \A i \in 1..Len(r.calls) :
                r.calls[i].fn = "embed_texts" =>
                    r.calls[i].args.texts = <<r.rag.question>>
          /\ \A i \in 1..Len(GeneratorCallsOf(r)) :
                GeneratorCallsOf(r)[i].args.messages = AloneMessages(r)
          /\ IsPrefix(r.events, AloneEvents(r))
          /\ r.rag.mode = "single" =>
                /\ r.events = <<>>
                /\ r.response \in {NoResponse, AloneResponse(r)}
                /\ r.rag.pc = "done" => r.response = AloneResponse(r)
          /\ r.rag.mode = "stream" =>
                /\ r.response = NoResponse
                /\ r.rag.pc = "done" => r.events = AloneEvents(r)

\* C26 witness: both requests are done, each on hits of its own: a
\* single-shot result with two sources and a stream with one sources line
\* and a content line.
C26_Witness ==
    /\ peer.id = 2
    /\ peer.rag.pc = "done" /\ rag.pc = "done"
    /\ rag.mode = "single" /\ rag.script = 2
    /\ Len(response.sources) = 2
    /\ peer.rag.mode = "stream" /\ peer.rag.script = 3
    /\ Len(peer.events) = 2
    /\ peer.events[1].type = "sources"
    /\ Len(peer.events[1].data) = 1

\* The calls of a request before the generator's: embed, the two searches
\* and the re-rank, with their arguments.
RetrievalCallsOf(r) ==
    SelectSeq(r.calls, LAMBDA c : c.fn \notin {"chat", "stream_chat"})

SourcesLinesOf(r) == {i \in 1..Len(r.events) : r.events[i].type = "sources"}

\* A single-shot request a and a streaming request b with the same
\* question, source id and collaborator responses.
Counterparts(a, b) ==
    /\ a.rag.mode = "single" /\ b.rag.mode = "stream"
    /\ a.rag.question = b.rag.question
    /\ a.rag.source_id = b.rag.source_id
    /\ a.rag.cohere_api_key = b.rag.cohere_api_key
    /\ a.rag.script = b.rag.script

\* C29: the streaming variant refines the single-shot one: for the same
\* question, source id and collaborator responses it makes the same embed,
\* search and re-rank calls with the same arguments, in the same order,
\* passes the generator the same messages, and a sources line it emits
\* carries the sources of the single-shot result.
C29_StreamRefinesSingle ==
    \A a, b \in Requests :
        Counterparts(a, b) =>
            /\ \/ IsPrefix(RetrievalCallsOf(a), RetrievalCallsOf(b))
               \/ IsPrefix(RetrievalCallsOf(b), RetrievalCallsOf(a))
            /\ (a.rag.pc = "done" /\ b.rag.pc = "done") =>
                  RetrievalCallsOf(a) = RetrievalCallsOf(b)
            /\ \A i \in 1..Len(GeneratorCallsOf(a)), j \in 1..Len(GeneratorCallsOf(b)) :
                  GeneratorCallsOf(a)[i].args = GeneratorCallsOf(b)[j].args
            /\ a.rag.pc = "done" =>
                  \A i \in SourcesLinesOf(b) : b.events[i].data = a.response.sources

\* C29 witness: a single-shot and a streaming request on the same hits
\* are both done: the stream's first line carries the two sources of the
\* single-shot result.
C29_Witness ==
    /\ Counterparts(Running, peer)
    /\ rag.pc = "done" /\ peer.rag.pc = "done"
    /\ rag.script = 2
    /\ Len(response.sources) = 2
    /\ peer.events # <<>>
    /\ peer.events[1] = SourcesEvent(response.sources)
    /\ Len(RetrievalCallsOf(peer)) = 4

(***************************************************************************)
(* Concurrent uploads (SpecEnsure)                                         *)
(***************************************************************************)
\* C30: under every interleaving of concurrent ensure_collection callers
\* on the same collection name, create_collection is issued at most once,
\* and never for a collection that already exists.
C30_CreateAtMostOnce ==
    /\ Len(ensurer.creates) <= 1
    /\ \A i \in 1..Len(ensurer.creates) : ~ensurer.creates[i].existed

====
